---- MODULE Spec2Model ----
(***************************************************************************)
(* A model of the WordlePy solver: the feedback function                   *)
(* (expected_value.py), the two constraint updaters (update_wordle_json in *)
(* wordle_functions.py and update_wordle_criteria in wordle_app.py), the   *)
(* candidate filter (wordle_filter) and the guess evaluator                *)
(* (evaluate_guess_candidates).                                            *)
(*                                                                         *)
(* A Python string is a sequence of one-character strings; the characters  *)
(* keep their case, and upper()/lower() are table lookups.                 *)
(***************************************************************************)
EXTENDS Integers, Sequences, FiniteSets, TLC

(***************************************************************************)
(* Bounds of the model.                                                    *)
(***************************************************************************)
\* how many words of the catalogue make up word_list.csv
NumWords == 8
\* how many guesses a game may submit
MaxGuesses == 3
\* how many (guess, pattern) pairs are applied when the patterns are free
MaxApplied == 2
\* alphabet size of the exhaustive inputs of generate_wordle_feedback
NumLetters == 3
\* how many times the guess form is submitted when the texts are free
MaxSubmitted == 2
\* the largest set of unknown letters a combo search is run on
MaxComboLetters == 4
\* find_lowest_non_zero_max on any results: how many combos, how many counts
\* per combo, and the largest count
MaxResults == 3
MaxCounts == 2
MaxCount == 2

\* the word length the code hard-wires (feedback = ['X'] * 5, range(5))
WordLen == 5

\* float('inf'), the lowest_max find_lowest_non_zero_max starts from
Infinity == 1000000

(***************************************************************************)
(* Characters and Python string helpers.                                   *)
(***************************************************************************)
UpperCase ==
  <<"A","B","C","D","E","F","G","H","I","J","K","L","M",
    "N","O","P","Q","R","S","T","U","V","W","X","Y","Z">>

LowerCase ==
  <<"a","b","c","d","e","f","g","h","i","j","k","l","m",
    "n","o","p","q","r","s","t","u","v","w","x","y","z">>

Chars ==
  {UpperCase[i] : i \in DOMAIN UpperCase} \cup {LowerCase[i] : i \in DOMAIN LowerCase} \cup {"-", " "}

\* str.upper() on one character
ToUpper ==
  [ch \in Chars |->
     IF \E i \in DOMAIN LowerCase : LowerCase[i] = ch
     THEN UpperCase[CHOOSE i \in DOMAIN LowerCase : LowerCase[i] = ch]
     ELSE ch]

\* str.lower() on one character
ToLower ==
  [ch \in Chars |->
     IF \E i \in DOMAIN UpperCase : UpperCase[i] = ch
     THEN LowerCase[CHOOSE i \in DOMAIN UpperCase : UpperCase[i] = ch]
     ELSE ch]

str_upper(s) == [i \in DOMAIN s |-> ToUpper[s[i]]]

str_lower(s) == [i \in DOMAIN s |-> ToLower[s[i]]]

\* the regex class [A-Za-z]
IsLetter(ch) == ch \notin {"-", " "}

\* `ch in s`
str_contains(s, ch) == \E i \in DOMAIN s : s[i] = ch

\* s.count(ch), Counter(s)[ch]
str_count(s, ch) == Cardinality({i \in DOMAIN s : s[i] = ch})

\* s.replace(ch, "")
str_remove(s, ch) == SelectSeq(s, LAMBDA x : x # ch)

\* set(s)
str_set(s) == {s[i] : i \in DOMAIN s}

Min(a, b) == IF a <= b THEN a ELSE b

\* s.strip(): the blanks at both ends removed
RECURSIVE str_strip(_)
str_strip(s) ==
  IF s = <<>> THEN s
  ELSE IF s[1] = " " THEN str_strip(Tail(s))
  ELSE IF s[Len(s)] = " " THEN str_strip(SubSeq(s, 1, Len(s) - 1))
  ELSE s

\* s[:n] and s[n:] for n >= 0
slice_to(s, n) == SubSeq(s, 1, Min(n, Len(s)))

slice_from(s, n) == SubSeq(s, Min(n, Len(s)) + 1, Len(s))

(***************************************************************************)
(* expected_value.py: generate_wordle_feedback                             *)
(***************************************************************************)
\* lines 15-19: the per-letter counts of the candidate
candidate_counts(guess, candidate) ==
  [ch \in str_set(guess) \cup str_set(candidate) |-> str_count(candidate, ch)]

\* first_pass with the loop one position short (range(4))
RECURSIVE first_pass_short(_, _, _, _, _)
first_pass_short(i, guess, candidate, feedback, counts) ==
  IF i > WordLen - 1 THEN [feedback |-> feedback, counts |-> counts]
  ELSE IF guess[i] = candidate[i]
       THEN first_pass_short(i + 1, guess, candidate,
                             [feedback EXCEPT ![i] = "G"],
                             [counts EXCEPT ![guess[i]] = @ - 1])
       ELSE first_pass_short(i + 1, guess, candidate, feedback, counts)

\* lines 22-25: greens, each taking one occurrence of its letter
RECURSIVE first_pass(_, _, _, _, _)
first_pass(i, guess, candidate, feedback, counts) ==
  IF i > WordLen THEN [feedback |-> feedback, counts |-> counts]
  ELSE IF guess[i] = candidate[i]
       THEN first_pass(i + 1, guess, candidate,
                       [feedback EXCEPT ![i] = "G"],
                       [counts EXCEPT ![guess[i]] = @ - 1])
       ELSE first_pass(i + 1, guess, candidate, feedback, counts)

\* second_pass without line 33: an amber does not use up an occurrence
RECURSIVE second_pass_no_decrement(_, _, _, _)
second_pass_no_decrement(i, guess, feedback, counts) ==
  IF i > WordLen THEN feedback
  ELSE IF feedback[i] = "G"
       THEN second_pass_no_decrement(i + 1, guess, feedback, counts)
       ELSE IF counts[guess[i]] > 0
            THEN second_pass_no_decrement(i + 1, guess, [feedback EXCEPT ![i] = "A"], counts)
            ELSE second_pass_no_decrement(i + 1, guess, feedback, counts)

\* the second pass going over the positions from the right
RECURSIVE second_pass_from_right(_, _, _, _)
second_pass_from_right(i, guess, feedback, counts) ==
  IF i > WordLen THEN feedback
  ELSE LET k == WordLen + 1 - i
       IN IF feedback[k] = "G"
          THEN second_pass_from_right(i + 1, guess, feedback, counts)
          ELSE IF counts[guess[k]] > 0
               THEN second_pass_from_right(i + 1, guess,
                                           [feedback EXCEPT ![k] = "A"],
                                           [counts EXCEPT ![guess[k]] = @ - 1])
               ELSE second_pass_from_right(i + 1, guess, feedback, counts)

\* lines 28-33: ambers, left to right, while occurrences remain
RECURSIVE second_pass(_, _, _, _)
second_pass(i, guess, feedback, counts) ==
  IF i > WordLen THEN feedback
  ELSE IF feedback[i] = "G"
       THEN second_pass(i + 1, guess, feedback, counts)
       ELSE IF counts[guess[i]] > 0
            THEN second_pass(i + 1, guess,
                             [feedback EXCEPT ![i] = "A"],
                             [counts EXCEPT ![guess[i]] = @ - 1])
            ELSE second_pass(i + 1, guess, feedback, counts)

generate_wordle_feedback(guess0, candidate0) ==
  LET guess == str_lower(guess0)
      candidate == str_lower(candidate0)
      p1 == first_pass(1, guess, candidate, <<"X", "X", "X", "X", "X">>,
                       candidate_counts(guess, candidate))
  IN second_pass(1, guess, p1.feedback, p1.counts)

(***************************************************************************)
(* The constraint document: wordle.json / st.session_state.wordle_criteria *)
(* exclusions maps the position of the key ('1st char' is 1) to a string.  *)
(***************************************************************************)
\* wordle_functions.py reset_wordle_json, wordle_app.py default_criteria
default_data ==
  [exclusions |-> << <<>>, <<>>, <<>>, <<>>, <<>> >>,
   known_letters |-> <<"-", "-", "-", "-", "-">>,
   unlocated_letters_in_word |-> <<>>,
   letters_not_in_word |-> <<>>]

\* known_letters.replace("-", "")
known_without_dash(known_letters) == SelectSeq(known_letters, LAMBDA x : x # "-")

\* the final clean-up of letters_not_in_word, the same in both updaters
clean_up_not_in_word(data) ==
  LET letters_to_remove ==
        str_set(known_without_dash(data.known_letters))
          \cup str_set(data.unlocated_letters_in_word)
  IN [data EXCEPT !.letters_not_in_word =
        SelectSeq(@, LAMBDA c : c \notin letters_to_remove)]

\* exclusions[key] with the key created empty when it is missing
with_key(exclusions, key) ==
  IF key \in DOMAIN exclusions THEN exclusions ELSE exclusions @@ (key :> <<>>)

(***************************************************************************)
(* wordle_functions.py: update_wordle_json                                 *)
(***************************************************************************)
\* the iteration with only an amber adding to the exclusions of its position
json_position_miss_not_excluded(data, idx, char, status) ==
  IF status = "G"
  THEN [data EXCEPT
          !.known_letters = slice_to(@, idx) \o <<char>> \o slice_from(@, idx + 1),
          !.unlocated_letters_in_word =
             IF str_contains(@, char) THEN str_remove(@, char) ELSE @]
  ELSE IF status = "A"
  THEN LET key == idx + 1
           excl == with_key(data.exclusions, key)
       IN [data EXCEPT
             !.exclusions =
                IF ~str_contains(excl[key], char)
                THEN [excl EXCEPT ![key] = Append(@, char)]
                ELSE excl,
             !.unlocated_letters_in_word =
                IF ~str_contains(@, char) THEN Append(@, char) ELSE @]
  ELSE IF status = "X"
  THEN [data EXCEPT
          !.letters_not_in_word = IF ~str_contains(@, char) THEN Append(@, char) ELSE @]
  ELSE data

\* one iteration of the loop of lines 52-81; idx counts from 0 as in the code
json_position(data, idx, char, status) ==
  IF status = "G"
  THEN [data EXCEPT
          !.known_letters = slice_to(@, idx) \o <<char>> \o slice_from(@, idx + 1),
          !.unlocated_letters_in_word =
             IF str_contains(@, char) THEN str_remove(@, char) ELSE @]
  ELSE IF status \in {"A", "X"}
  THEN LET key == idx + 1
           excl == with_key(data.exclusions, key)
       IN [data EXCEPT
             !.exclusions =
                IF ~str_contains(excl[key], char)
                THEN [excl EXCEPT ![key] = Append(@, char)]
                ELSE excl,
             !.unlocated_letters_in_word =
                IF status = "A" /\ ~str_contains(@, char) THEN Append(@, char) ELSE @,
             !.letters_not_in_word =
                IF ~(status = "A" /\ ~str_contains(data.unlocated_letters_in_word, char))
                   /\ status = "X" /\ ~str_contains(@, char)
                THEN Append(@, char) ELSE @]
  ELSE data

\* the loop over enumerate(zip(word, pattern))
RECURSIVE json_loop(_, _, _, _)
json_loop(data, idx, word, pattern) ==
  IF idx >= Min(Len(word), Len(pattern)) THEN data
  ELSE json_loop(json_position(data, idx, word[idx + 1], pattern[idx + 1]),
                 idx + 1, word, pattern)

update_wordle_json(wordle_data, word, pattern) ==
  clean_up_not_in_word(json_loop(wordle_data, 0, word, pattern))

(***************************************************************************)
(* wordle_app.py: update_wordle_criteria                                   *)
(***************************************************************************)
\* line 160: how many positions of the guess hold ch with status A
a_counts(word, pattern, ch) ==
  Cardinality({i \in 1..Min(Len(word), Len(pattern)) :
                 word[i] = ch /\ ToUpper[pattern[i]] = "A"})

\* criteria_position with the amber rule of update_wordle_json: the letter is
\* added whenever it is not yet listed, whatever the known letters hold
criteria_position_amber_unlisted(criteria, idx, char, status, a_count) ==
  IF status = "G"
  THEN [criteria EXCEPT
          !.known_letters = slice_to(@, idx) \o <<char>> \o slice_from(@, idx + 1),
          !.unlocated_letters_in_word = str_remove(@, char)]
  ELSE IF status \in {"A", "X"}
  THEN LET key == idx + 1
           current_exclusions ==
             IF key \in DOMAIN criteria.exclusions THEN criteria.exclusions[key] ELSE <<>>
       IN [criteria EXCEPT
             !.exclusions =
                IF ~str_contains(current_exclusions, char)
                THEN [with_key(@, key) EXCEPT ![key] = Append(current_exclusions, char)]
                ELSE @,
             !.unlocated_letters_in_word =
                IF status = "A" /\ ~str_contains(@, char) THEN Append(@, char) ELSE @,
             !.letters_not_in_word =
                IF status = "X" /\ ~str_contains(@, char) THEN Append(@, char) ELSE @]
  ELSE criteria

\* one iteration of the loop of lines 162-184
criteria_position(criteria, idx, char, status, a_count) ==
  IF status = "G"
  THEN [criteria EXCEPT
          !.known_letters = slice_to(@, idx) \o <<char>> \o slice_from(@, idx + 1),
          !.unlocated_letters_in_word = str_remove(@, char)]
  ELSE IF status \in {"A", "X"}
  THEN LET key == idx + 1
           current_exclusions ==
             IF key \in DOMAIN criteria.exclusions THEN criteria.exclusions[key] ELSE <<>>
           count_known == str_count(str_upper(criteria.known_letters), char)
           count_unlocated == str_count(str_upper(criteria.unlocated_letters_in_word), char)
       IN [criteria EXCEPT
             !.exclusions =
                IF ~str_contains(current_exclusions, char)
                THEN [with_key(@, key) EXCEPT ![key] = Append(current_exclusions, char)]
                ELSE @,
             !.unlocated_letters_in_word =
                IF status = "A" /\ count_unlocated < a_count - count_known
                THEN Append(@, char) ELSE @,
             !.letters_not_in_word =
                IF status = "X" /\ ~str_contains(@, char) THEN Append(@, char) ELSE @]
  ELSE criteria

RECURSIVE criteria_loop(_, _, _, _)
criteria_loop(criteria, idx, word, pattern) ==
  IF idx >= Min(Len(word), Len(pattern)) THEN criteria
  ELSE criteria_loop(
         criteria_position(criteria, idx, word[idx + 1], pattern[idx + 1],
                           a_counts(word, pattern, word[idx + 1])),
         idx + 1, word, pattern)

update_wordle_criteria(criteria, word0, pattern0) ==
  LET word == str_upper(word0)
      pattern == str_upper(pattern0)
  IN clean_up_not_in_word(criteria_loop(criteria, 0, word, pattern))

(***************************************************************************)
(* wordle_functions.py: wordle_filter and its four filters.  A word list   *)
(* (the WORD column of the DataFrame) is a sequence of words.              *)
(***************************************************************************)
\* str.match of the pattern with every non-letter turned into '.'
candidates_match_known(word_list, known_letters) ==
  SelectSeq(word_list,
            LAMBDA w : /\ Len(w) >= Len(known_letters)
                       /\ \A i \in DOMAIN known_letters :
                            IsLetter(known_letters[i]) => w[i] = known_letters[i])

\* zip(exclusions.values(), word)
filter_words_by_exclusions(word_list, exclusions) ==
  SelectSeq(word_list,
            LAMBDA w : \A j \in 1..Min(Len(exclusions), Len(w)) :
                         ~str_contains(str_upper(exclusions[j]), ToUpper[w[j]]))

candidates_all_letters(word_list, known_letters, unlocated_letters) ==
  LET all_letters_in_word ==
        str_upper(unlocated_letters \o SelectSeq(known_letters, IsLetter))
  IN SelectSeq(word_list,
               LAMBDA w : \A ch \in str_set(all_letters_in_word) :
                            str_count(str_upper(w), ch) >= str_count(all_letters_in_word, ch))

candidates_ex_excluded(word_list, letters_not_in_word) ==
  SelectSeq(word_list,
            LAMBDA w : str_set(str_upper(letters_not_in_word)) \cap str_set(str_upper(w)) = {})

\* the DataFrame after each of the four steps of wordle_filter.  A step that
\* masks with word_list['WORD'].apply(...) gets, on a frame without rows, an
\* empty Series that is not boolean: the frame it returns has no WORD column,
\* and the next such step raises KeyError on word_list['WORD'].
wordle_filter_steps(inputs, word_list) ==
  LET known_letters == str_upper(inputs.known_letters)
      unlocated_letters == str_upper(inputs.unlocated_letters_in_word)
      exclusions == inputs.exclusions
      letters_not_in_word == str_upper(inputs.letters_not_in_word)
      by_exclusions == \E k \in DOMAIN exclusions : exclusions[k] # <<>>
      by_unlocated == Len(unlocated_letters) > 0
      by_not_in_word == Len(letters_not_in_word) > 0
      c1 == IF Len(known_letters) > 0
            THEN candidates_match_known(word_list, known_letters) ELSE word_list
      c2 == IF by_exclusions
            THEN filter_words_by_exclusions(c1, [k \in DOMAIN exclusions |-> str_upper(exclusions[k])])
            ELSE c1
      no_column2 == by_exclusions /\ c1 = <<>>
      raised3 == by_unlocated /\ no_column2
      c3 == IF by_unlocated
            THEN candidates_all_letters(c2, known_letters, unlocated_letters) ELSE c2
      no_column3 == no_column2 \/ (by_unlocated /\ c2 = <<>>)
      raised4 == by_not_in_word /\ no_column3
      c4 == IF by_not_in_word
            THEN candidates_ex_excluded(c3, letters_not_in_word) ELSE c3
      no_column4 == no_column3 \/ (by_not_in_word /\ c3 = <<>>)
  IN [rows |-> c4, raised |-> raised3 \/ raised4, no_column |-> no_column4]

\* the words of the frame wordle_filter returns (none when it raises)
wordle_filter(inputs, word_list) == wordle_filter_steps(inputs, word_list).rows

\* wordle_filter raises KeyError: 'WORD'
wordle_filter_raises(inputs, word_list) == wordle_filter_steps(inputs, word_list).raised

\* the frame wordle_filter returns has no WORD column
wordle_filter_no_column(inputs, word_list) == wordle_filter_steps(inputs, word_list).no_column

(***************************************************************************)
(* The word list.  word_list.csv is not part of the sources; the model     *)
(* uses the first NumWords words of a fixed catalogue of upper-case words  *)
(* with the repeated letters the duplicate-letter rules are about.         *)
(***************************************************************************)
Catalogue ==
  << <<"C","R","A","N","E">>, <<"C","R","O","N","E">>, <<"T","R","A","C","E">>,
     <<"S","P","E","E","D">>, <<"H","E","A","R","D">>, <<"E","L","A","T","E">>,
     <<"E","A","T","E","N">>, <<"G","E","E","S","E">>, <<"E","E","R","I","E">>,
     <<"O","F","T","E","N">>, <<"T","E","P","E","E">>, <<"E","R","A","S","E">> >>

word_list == SubSeq(Catalogue, 1, NumWords)

Words == str_set(word_list)

(***************************************************************************)
(* expected_value.py: apply_updated_criteria, evaluate_guess_candidates    *)
(***************************************************************************)
\* line 45 / line 104: candidates["WORD"] = candidates["WORD"].str.lower()
lower_words(candidates_) == [k \in DOMAIN candidates_ |-> str_lower(candidates_[k])]

\* the criteria with every letter marked X taken as absent from the word
pattern_criteria_every_miss_absent(guess, pattern) ==
  LET n == Min(Len(guess), Len(pattern))
  IN [known_letters |-> [i \in 1..5 |-> IF i <= n /\ pattern[i] = "G" THEN guess[i] ELSE "-"],
      unlocated_letters |-> {guess[i] : i \in {j \in 1..n : pattern[j] = "A"}},
      position_exclusions |->
         [i \in 1..5 |-> IF i <= n /\ pattern[i] = "A" THEN {guess[i]} ELSE {}],
      letters_not_in_word |-> {guess[i] : i \in {j \in 1..n : pattern[j] = "X"}}]

\* lines 47-66: the criteria one (guess, pattern) pair gives
pattern_criteria(guess, pattern) ==
  LET n == Min(Len(guess), Len(pattern))
      known == [i \in 1..5 |-> IF i <= n /\ pattern[i] = "G" THEN guess[i] ELSE "-"]
      unlocated == {guess[i] : i \in {j \in 1..n : pattern[j] = "A"}}
      not_in_word == {guess[i] : i \in {j \in 1..n : pattern[j] = "X"}}
  IN [known_letters |-> known,
      unlocated_letters |-> unlocated,
      position_exclusions |->
         [i \in 1..5 |-> IF i <= n /\ pattern[i] = "A" THEN {guess[i]} ELSE {}],
      letters_not_in_word |->
         (not_in_word \ str_set(known_without_dash(known))) \ unlocated]

\* lines 69-86: the pandas filters, all of them case-insensitive
passes_criteria(w, c) ==
  /\ \A i \in 1..5 : c.known_letters[i] # "-" => ToLower[w[i]] = ToLower[c.known_letters[i]]
  /\ \A letter \in c.unlocated_letters : str_contains(str_lower(w), ToLower[letter])
  /\ \A i \in 1..5 : \A letter \in c.position_exclusions[i] : ToLower[w[i]] # ToLower[letter]
  /\ \A letter \in c.letters_not_in_word : ~str_contains(str_lower(w), ToLower[letter])

apply_updated_criteria(guess0, pattern0, candidates_) ==
  LET guess == str_lower(guess0)
      pattern == str_upper(pattern0)
      c == pattern_criteria(guess, pattern)
  IN Len(SelectSeq(lower_words(candidates_), LAMBDA w : passes_criteria(w, c)))

\* lines 108-116: the row evaluate_guess_candidates appends for one candidate
result_row(guess, candidate, candidates_) ==
  LET pattern == generate_wordle_feedback(guess, candidate)
  IN [word |-> candidate,
      pattern |-> pattern,
      remaining |-> apply_updated_criteria(guess, pattern, candidates_)]

RECURSIVE SeqSum(_)
SeqSum(s) == IF s = <<>> THEN 0 ELSE Head(s) + SeqSum(Tail(s))

SeqMax(s) == CHOOSE m \in str_set(s) : \A x \in str_set(s) : x <= m

\* the column results_df["Remaining Candidates"]
remaining_column(results) == [k \in DOMAIN results |-> results[k].remaining]

\* the rows that are the first of their feedback pattern
first_of_pattern(results) ==
  {k \in DOMAIN results : \A j \in 1..(k - 1) : results[j].pattern # results[k].pattern}

\* the statistics taken over one value per distinct pattern
summary_statistics_per_pattern(results) ==
  LET firsts == first_of_pattern(results)
      column == remaining_column(results)
  IN [total |-> SeqSum([k \in DOMAIN results |-> IF k \in firsts THEN column[k] ELSE 0]),
      count |-> Cardinality(firsts),
      max |-> SeqMax(column)]

\* lines 121-123: mean (kept as the fraction total / count) and max
summary_statistics(results) ==
  [total |-> SeqSum(remaining_column(results)),
   count |-> Len(results),
   max |-> SeqMax(remaining_column(results))]

(***************************************************************************)
(* State.                                                                  *)
(***************************************************************************)
(***************************************************************************)
(* wordle_functions.py: get_max_non_zero_matches.  Positions count from 1  *)
(* here and from 0 in the code.                                            *)
(***************************************************************************)
\* generate_combinations: every tuple of X, A, G of the length (the order in
\* which product yields them plays no part in the maximum)
generate_combinations(word_length) == [1..word_length -> {"X", "A", "G"}]

map_to_constraints(guess0, combination) ==
  LET guess == str_lower(guess0)
      zipped == 1..Min(Len(guess), Len(combination))
  IN [In |-> {guess[i] : i \in {j \in zipped : combination[j] \in {"A", "G"}}},
      Out |-> {guess[i] : i \in {j \in zipped : combination[j] = "X"}},
      Known |-> {<<i, guess[i]>> : i \in {j \in zipped : combination[j] = "G"}},
      Not |-> {<<i, guess[i]>> : i \in {j \in zipped : combination[j] \in {"X", "A"}}}]

\* preprocess_candidates: letter_index[letter]
letter_index(words, letter) ==
  {words[k] : k \in {j \in DOMAIN words : str_contains(words[j], letter)}}

\* preprocess_candidates: position_index[pos][letter]
position_index(words, pos, letter) ==
  {words[k] : k \in {j \in DOMAIN words : Len(words[j]) >= pos /\ words[j][pos] = letter}}

\* fast_count_matching_words for one combination; candidates is the WORD
\* column as preprocess_candidates leaves it (lower case)
matching_words(c, candidates_) ==
  LET in_set == {ToLower[ch] : ch \in c.In}
      out_set == {ToLower[ch] : ch \in c.Out}
      known == {<<pl[1], ToLower[pl[2]]>> : pl \in c.Known}
      not_set == {<<pl[1], ToLower[pl[2]]>> : pl \in c.Not}
      all_words == str_set(lower_words(candidates_))
  IN {w \in all_words :
        /\ \A letter \in in_set : w \in letter_index(candidates_, letter)
        /\ \A letter \in out_set : w \notin letter_index(candidates_, letter)
        /\ \A pl \in known : w \in position_index(candidates_, pl[1], pl[2])
        /\ \A pl \in not_set : w \notin position_index(candidates_, pl[1], pl[2])}

\* get_max_non_zero_matches, lines 534-548, for one guess: the
\* 'Max Matching Words Count' of its row
max_matching_words_count(guess, candidates_) ==
  LET counts == {Cardinality(matching_words(map_to_constraints(guess, combo), candidates_)) :
                   combo \in generate_combinations(Len(guess))}
      non_zero == {n \in counts : n > 0}
  IN IF non_zero # {} THEN CHOOSE m \in non_zero : \A n \in non_zero : n <= m ELSE 0

(***************************************************************************)
(* wordle_functions.py: the combo search                                   *)
(***************************************************************************)
\* set(''.join(word_list).upper())
get_unique_letters(words) ==
  UNION {str_set(str_upper(words[k])) : k \in DOMAIN words}

letters_in_candidates(words, inputs) ==
  get_unique_letters(words)
    \ str_set(str_upper(inputs.known_letters \o inputs.unlocated_letters_in_word))

\* "".join(a_set): the letters of the set in the order the set is iterated,
\* which the language leaves open
join_orders(letters) ==
  {order \in [1..Cardinality(letters) -> letters] :
     \A i, j \in DOMAIN order : order[i] = order[j] => i = j}

\* ''.join(dict.fromkeys(s)): the first occurrence of every character, in order
RECURSIVE unique_chars(_)
unique_chars(s) ==
  IF s = <<>> THEN <<>>
  ELSE LET init == unique_chars(SubSeq(s, 1, Len(s) - 1))
       IN IF str_contains(init, s[Len(s)]) THEN init ELSE Append(init, s[Len(s)])

\* itertools.combinations(chars, n) for n >= 0, in the order it yields them
RECURSIVE combinations(_, _)
combinations(chars, n) ==
  IF n = 0 THEN << <<>> >>
  ELSE IF Len(chars) < n THEN <<>>
  ELSE LET with_first == combinations(Tail(chars), n - 1)
       IN [k \in DOMAIN with_first |-> <<chars[1]>> \o with_first[k]]
            \o combinations(Tail(chars), n)

\* for n >= 0; a negative n makes itertools.combinations raise ValueError
get_n_letter_combinations(input_string, n) ==
  combinations(unique_chars(str_upper(input_string)), n)

\* the filter keeping a combo when some word holds one of its letters
filter_combos_any_letter(words, combos) ==
  SelectSeq(combos,
            LAMBDA combo : \E k \in DOMAIN words : str_set(combo) \cap str_set(words[k]) # {})

filter_combos(words, combos) ==
  SelectSeq(combos,
            LAMBDA combo : \E k \in DOMAIN words : str_set(combo) \subseteq str_set(words[k]))

\* itertools.product([True, False], repeat=k), in the order it yields them
RECURSIVE product_true_false(_)
product_true_false(k) ==
  IF k = 0 THEN << <<>> >>
  ELSE LET rest == product_true_false(k - 1)
       IN [i \in DOMAIN rest |-> <<TRUE>> \o rest[i]]
            \o [i \in DOMAIN rest |-> <<FALSE>> \o rest[i]]

\* the count with a word kept when it misses one of the False letters, in
\* place of all of them
match_count_misses_one(combo, binary_combo, words) ==
  LET true_letters == {combo[i] : i \in {j \in DOMAIN combo : binary_combo[j]}}
      false_letters == str_set(combo) \ true_letters
  IN Cardinality({k \in DOMAIN words :
                    /\ true_letters \subseteq str_set(words[k])
                    /\ \/ false_letters = {}
                       \/ \E l \in false_letters : l \notin str_set(words[k])})

\* the count of the words that hold every True letter, whatever else they hold
match_count_true_letters_only(combo, binary_combo, words) ==
  LET true_letters == {combo[i] : i \in {j \in DOMAIN combo : binary_combo[j]}}
  IN Cardinality({k \in DOMAIN words : true_letters \subseteq str_set(words[k])})

\* lines 329-334: the words that hold every True letter and no False letter
\* (the Counter of preprocess_word_list adds one per word)
match_count(combo, binary_combo, words) ==
  LET true_letters == {combo[i] : i \in {j \in DOMAIN combo : binary_combo[j]}}
      false_letters == str_set(combo) \ true_letters
  IN Cardinality({k \in DOMAIN words :
                    /\ true_letters \subseteq str_set(words[k])
                    /\ str_set(words[k]) \cap false_letters = {}})

\* the dictionary results, as the list of its items in insertion order
process_binary_combos_with_optimised_counting(filtered_combos, words) ==
  [k \in DOMAIN filtered_combos |->
     LET combo == filtered_combos[k]
         binary_combos == product_true_false(Len(combo))
     IN [combo |-> combo,
         binary_results |->
           [j \in DOMAIN binary_combos |->
              [binary_combo |-> binary_combos[j],
               match_count |-> match_count(combo, binary_combos[j], words)]]]]

\* best_combo = None
NoCombo == << "None" >>

\* max(r['match_count'] for r in binary_results)
max_count(binary_results) ==
  SeqMax([j \in DOMAIN binary_results |-> binary_results[j].match_count])

\* the loop of find_lowest_non_zero_max with <= for <: the last of the combos
\* with the lowest maximum wins
RECURSIVE lowest_loop_last(_, _, _)
lowest_loop_last(results, k, best) ==
  IF k > Len(results) THEN best
  ELSE LET m == max_count(results[k].binary_results)
       IN lowest_loop_last(results, k + 1,
            IF 0 < m /\ m <= best.lowest_max
            THEN [best_combo |-> results[k].combo, lowest_max |-> m]
            ELSE best)

\* lines 352-356
RECURSIVE lowest_loop(_, _, _)
lowest_loop(results, k, best) ==
  IF k > Len(results) THEN best
  ELSE LET m == max_count(results[k].binary_results)
       IN lowest_loop(results, k + 1,
            IF 0 < m /\ m < best.lowest_max
            THEN [best_combo |-> results[k].combo, lowest_max |-> m]
            ELSE best)

find_lowest_non_zero_max(results) ==
  lowest_loop(results, 1, [best_combo |-> NoCombo, lowest_max |-> Infinity])

VARIABLES
  pipeline,          \* "json": the wordle.json workflow; "app": the Streamlit app
  answer,            \* the hidden word the feedback is scored against (<<>>: none)
  wordle_criteria,   \* the contents of wordle.json / session_state.wordle_criteria
  candidates,        \* the candidates last computed by wordle_filter, or None
  previous_guesses,  \* the app's session_state.previous_guesses
  applied,           \* how many (guess, pattern) pairs were applied
  last_guess,        \* the word of the last pair applied
  last_pattern,      \* its pattern
  error,             \* what the last call reported: "" (nothing), the st.error
                     \* message of the form, or the exception raised
  form_guess,        \* the guess form: the text submitted as the guess
  form_result,       \* the guess form: the text submitted as the result
  submitted,         \* how many times the guess form was submitted
  sc_guess,          \* generate_wordle_feedback: argument guess
  sc_answer,         \* generate_wordle_feedback: argument candidate
  sc_pattern,        \* generate_wordle_feedback: the returned string
  ev_guess,          \* evaluate_guess_candidates: argument guess
  ev_candidates,     \* evaluate_guess_candidates: the caller's candidates["WORD"]
  ev_results,        \* evaluate_guess_candidates: the list results
  ev_summary,        \* evaluate_guess_candidates: the statistics returned
  ev_pc,             \* evaluate_guess_candidates: "start", "loop", "done", "raised";
                     \* get_max_non_zero_matches: "start", "max_done"
  ev_max,            \* get_max_non_zero_matches: 'Max Matching Words Count'
  cb_entry,          \* the combo search: "app" (the Identify Words button) or
                     \* "library" (the functions called in turn)
  cb_source,         \* source_df["WORD"]
  cb_inputs,         \* inputs
  cb_n,              \* combo_n
  cb_letters,        \* "".join(all_letters)
  cb_combos,         \* combos
  cb_filtered,       \* filtered_combos
  cb_results,        \* results2
  cb_best,           \* (best_combo, best_score)
  cb_pc,             \* where the search stands: "start", "letters", "combos",
                     \* "filtered", "results", "done", or how it ended early
  \* wordle_second_guess.py, one run of create_filtered_outcomes_from_start
  oc_guess,          \* guess
  oc_word_list,      \* word_list, the WORD column of word_list.csv
  oc_outcomes,       \* outcomes, as a list of (pattern, data) in insertion order
  oc_count,          \* pattern_count
  oc_filtered,       \* filtered_data_no_criteria, as a list of (pattern, details)
  oc_files,          \* the files written
  oc_pc,             \* "start", "outcomes", "candidates", "filtered", "KeyError"
  \* run_second_guess_process.py, one run of run_analysis_on_filtered_patterns
  bt_input_ok,       \* json_file can be opened and decoded
  bt_data,           \* filtered_data, as a list of (pattern, count) in file order
  bt_max,            \* max_candidates
  bt_test,           \* test_mode
  bt_existing,       \* output_file as it was when the run started
  bt_file,           \* output_file
  bt_results,        \* results
  bt_queue,          \* patterns_to_process_sorted
  bt_i,              \* i, the position in patterns_to_process_sorted
  bt_analysed,       \* the patterns max_analysis_for_pattern was called for, in order
  bt_raised,         \* the patterns whose analysis raised
  bt_writes,         \* how many times output_file was opened for writing
  bt_pc              \* "start", "loop", "returned"

form_vars == <<form_guess, form_result, submitted>>

game_vars ==
  <<pipeline, answer, wordle_criteria, candidates, previous_guesses,
    applied, last_guess, last_pattern, error, form_vars>>

score_vars == <<sc_guess, sc_answer, sc_pattern>>

eval_vars == <<ev_guess, ev_candidates, ev_results, ev_summary, ev_pc, ev_max>>

combo_vars ==
  <<cb_entry, cb_source, cb_inputs, cb_n, cb_letters, cb_combos, cb_filtered,
    cb_results, cb_best, cb_pc>>

outcome_vars ==
  <<oc_guess, oc_word_list, oc_outcomes, oc_count, oc_filtered, oc_files, oc_pc>>

batch_vars ==
  <<bt_input_ok, bt_data, bt_max, bt_test, bt_existing, bt_file, bt_results,
    bt_queue, bt_i, bt_analysed, bt_raised, bt_writes, bt_pc>>

tool_vars == <<outcome_vars, batch_vars>>

vars == <<game_vars, score_vars, eval_vars, combo_vars, tool_vars>>

\* session_state["candidates"] = None
None == << <<"None">> >>

NoSummary == [total |-> 0, count |-> 0, max |-> 0]

GameIdle ==
  /\ pipeline = "none"
  /\ answer = <<>>
  /\ wordle_criteria = default_data
  /\ candidates = None
  /\ previous_guesses = <<>>
  /\ applied = 0
  /\ last_guess = <<>>
  /\ last_pattern = <<>>
  /\ error = ""
  /\ form_guess = <<>>
  /\ form_result = <<>>
  /\ submitted = 0

ScoreIdle ==
  /\ sc_guess = <<>>
  /\ sc_answer = <<>>
  /\ sc_pattern = <<>>

EvalIdle ==
  /\ ev_guess = <<>>
  /\ ev_candidates = <<>>
  /\ ev_results = <<>>
  /\ ev_summary = NoSummary
  /\ ev_pc = "idle"
  /\ ev_max = 0

NoBest == [best_combo |-> NoCombo, lowest_max |-> 0]

ComboIdle ==
  /\ cb_entry = "none"
  /\ cb_source = <<>>
  /\ cb_inputs = default_data
  /\ cb_n = 0
  /\ cb_letters = <<>>
  /\ cb_combos = <<>>
  /\ cb_filtered = <<>>
  /\ cb_results = <<>>
  /\ cb_best = NoBest
  /\ cb_pc = "idle"

OutcomeIdle ==
  /\ oc_guess = <<>>
  /\ oc_word_list = <<>>
  /\ oc_outcomes = <<>>
  /\ oc_count = 0
  /\ oc_filtered = <<>>
  /\ oc_files = {}
  /\ oc_pc = "idle"

\* a dictionary with no key
EmptyDict == [p \in {} |-> ""]

\* output_file does not exist
NoFile == [state |-> "missing", entries |-> EmptyDict]

\* output_file holds text that json.load cannot decode
Undecodable == [state |-> "undecodable", entries |-> EmptyDict]

BatchIdle ==
  /\ bt_input_ok = TRUE
  /\ bt_data = <<>>
  /\ bt_max = 0
  /\ bt_test = FALSE
  /\ bt_existing = NoFile
  /\ bt_file = NoFile
  /\ bt_results = EmptyDict
  /\ bt_queue = <<>>
  /\ bt_i = 0
  /\ bt_analysed = <<>>
  /\ bt_raised = {}
  /\ bt_writes = 0
  /\ bt_pc = "idle"

ToolsIdle == OutcomeIdle /\ BatchIdle

(***************************************************************************)
(* Spec: a game.  The feedback of every guess is the true feedback against *)
(* the hidden answer.                                                      *)
(***************************************************************************)
Init ==
  /\ pipeline \in {"json", "app"}
  /\ answer \in Words
  /\ wordle_criteria = default_data
  /\ candidates = None
  /\ previous_guesses = <<>>
  /\ applied = 0
  /\ last_guess = <<>>
  /\ last_pattern = <<>>
  /\ error = ""
  /\ form_guess = <<>>
  /\ form_result = <<>>
  /\ submitted = 0
  /\ ScoreIdle
  /\ EvalIdle
  /\ ComboIdle
  /\ ToolsIdle

\* wordle_functions.py load_wordle_inputs / wordle_app.py extract_inputs_from_criteria
load_wordle_inputs(config) ==
  [exclusions |-> config.exclusions,
   known_letters |-> config.known_letters,
   unlocated_letters_in_word |-> config.unlocated_letters_in_word,
   letters_not_in_word |-> config.letters_not_in_word]

\* test_workflow_with_ev.py update_for_guess: "GUESS SCORE".upper(), then
\* update_wordle_json splits it at the blank
UpdateForGuess(guess, score) ==
  /\ pipeline = "json"
  /\ applied < MaxGuesses
  /\ wordle_criteria' = update_wordle_json(wordle_criteria, str_upper(guess), str_upper(score))
  /\ applied' = applied + 1
  /\ last_guess' = str_upper(guess)
  /\ last_pattern' = str_upper(score)
  /\ error' = ""
  /\ UNCHANGED <<pipeline, answer, candidates, previous_guesses, form_vars,
                 score_vars, eval_vars, combo_vars, tool_vars>>

\* test_workflow_with_ev.py update_candidates
UpdateCandidates ==
  /\ pipeline = "json"
  /\ LET inputs == load_wordle_inputs(wordle_criteria)
     IN IF wordle_filter_raises(inputs, word_list)
        THEN /\ error' = "KeyError"
             /\ candidates' = candidates
        ELSE /\ error' = ""
             /\ candidates' = wordle_filter(inputs, word_list)
  /\ UNCHANGED <<pipeline, answer, wordle_criteria, previous_guesses, applied,
                 last_guess, last_pattern, form_vars, score_vars, eval_vars, combo_vars, tool_vars>>

\* wordle_app.py render_guess_section, lines 225-230: the three validations
guess_is_valid(user_guess, user_result) ==
  /\ Len(user_guess) = 5
  /\ \E k \in DOMAIN word_list : str_lower(word_list[k]) = str_lower(user_guess)
  /\ Len(user_result) = 5
  /\ \A i \in DOMAIN user_result : ToUpper[user_result[i]] \in {"X", "A", "G"}

\* wordle_app.py render_guess_section, lines 225-230: the message of the first
\* validation that fails
validation_error(user_guess, user_result) ==
  IF Len(user_guess) # 5 THEN "Guess word must be exactly 5 letters."
  ELSE IF ~\E k \in DOMAIN word_list : str_lower(word_list[k]) = str_lower(user_guess)
  THEN "Guess word must appear in the word list."
  ELSE "Guess result must be exactly 5 characters long (only X, A, or G)."

\* wordle_app.py render_guess_section, lines 222-265: the form is submitted
\* with the two texts.  wordle_filter is called after the criteria are stored;
\* when it raises, the rest of the branch does not run.
SubmitGuess(guess_text, result_text) ==
  /\ pipeline = "app"
  /\ form_guess' = guess_text
  /\ form_result' = result_text
  /\ submitted' = submitted + 1
  /\ LET user_guess == str_strip(guess_text)
         user_result == str_strip(result_text)
         criteria == update_wordle_criteria(wordle_criteria, user_guess, user_result)
         inputs == load_wordle_inputs(criteria)
         filtered == wordle_filter(inputs, word_list)
     IN IF ~guess_is_valid(user_guess, user_result)
        THEN /\ error' = validation_error(user_guess, user_result)
             /\ UNCHANGED <<wordle_criteria, candidates, previous_guesses,
                            applied, last_guess, last_pattern, tool_vars>>
        ELSE /\ wordle_criteria' = criteria
             /\ applied' = applied + 1
             /\ last_guess' = str_upper(user_guess)
             /\ last_pattern' = str_upper(user_result)
             /\ IF wordle_filter_raises(inputs, word_list)
                THEN /\ error' = "KeyError"
                     /\ UNCHANGED <<candidates, previous_guesses, tool_vars>>
                ELSE /\ error' = ""
                     /\ candidates' = filtered
                     /\ previous_guesses' =
                          Append(previous_guesses,
                                 [guess |-> str_upper(user_guess),
                                  result |-> str_upper(user_result),
                                  num_candidates |-> Len(filtered)])
  /\ UNCHANGED <<pipeline, answer, score_vars, eval_vars, combo_vars, tool_vars>>

\* what the player types: a word of the list, in either case
Typed(w) == {w, str_lower(w)}

PlayJson ==
  \E w \in Words : \E guess \in Typed(w) :
    UpdateForGuess(guess, generate_wordle_feedback(guess, answer))

PlayApp ==
  /\ applied < MaxGuesses
  /\ \E w \in Words : \E guess \in Typed(w) :
       SubmitGuess(guess, generate_wordle_feedback(guess, answer))

Next ==
  \/ PlayJson
  \/ UpdateCandidates
  \/ PlayApp

Spec == Init /\ [][Next]_vars

(***************************************************************************)
(* SpecReset: the game of Spec with the reset of either pipeline allowed   *)
(* between the guesses.  The variable error holds the message of the last  *)
(* operation, and a reset leaves its own message there.                    *)
(***************************************************************************)
\* wordle_functions.py line 30: print(f"{file_path} has been reset.")
JsonResetMessage == "wordle.json has been reset."

\* wordle_app.py line 147: st.success("Tool has been reset.")
AppResetMessage == "Tool has been reset."

\* wordle_functions.py reset_tool, called at test_workflow_with_ev.py line 87:
\* the file is rewritten with default_data; the dictionary of None values it
\* returns is not assigned, so the script's candidates stay as they are
reset_tool ==
  /\ pipeline = "json"
  /\ wordle_criteria' = default_data
  /\ error' = JsonResetMessage
  /\ UNCHANGED <<pipeline, answer, candidates, previous_guesses, applied,
                 last_guess, last_pattern, form_vars, score_vars, eval_vars,
                 combo_vars, tool_vars>>

\* the button with the list of the previous guesses left as it is
render_reset_section_keeps_guesses ==
  /\ pipeline = "app"
  /\ wordle_criteria' = default_data
  /\ candidates' = None
  /\ error' = AppResetMessage
  /\ UNCHANGED <<pipeline, answer, previous_guesses, applied, last_guess,
                 last_pattern, form_vars, score_vars, eval_vars, combo_vars,
                 tool_vars>>

\* wordle_app.py render_reset_section, lines 123-149: the Reset button
render_reset_section ==
  /\ pipeline = "app"
  /\ wordle_criteria' = default_data
  /\ previous_guesses' = <<>>
  /\ candidates' = None
  /\ error' = AppResetMessage
  /\ UNCHANGED <<pipeline, answer, applied, last_guess, last_pattern,
                 form_vars, score_vars, eval_vars, combo_vars, tool_vars>>

NextReset ==
  \/ PlayJson
  \/ UpdateCandidates
  \/ PlayApp
  \/ reset_tool
  \/ render_reset_section

SpecReset == Init /\ [][NextReset]_vars

(***************************************************************************)
(* SpecAny: the two updaters applied to any sequence of (guess, pattern)   *)
(* pairs.  The pattern of a pair is a feedback of its guess against some   *)
(* word of the list, not the same word for every pair: the pairs need not  *)
(* agree with one another.  After MaxApplied pairs the last pair may be    *)
(* entered once more.                                                      *)
(***************************************************************************)
InitAny ==
  /\ pipeline \in {"json", "app"}
  /\ answer = <<>>
  /\ wordle_criteria = default_data
  /\ candidates = None
  /\ previous_guesses = <<>>
  /\ applied = 0
  /\ last_guess = <<>>
  /\ last_pattern = <<>>
  /\ error = ""
  /\ form_guess = <<>>
  /\ form_result = <<>>
  /\ submitted = 0
  /\ ScoreIdle
  /\ EvalIdle
  /\ ComboIdle
  /\ ToolsIdle

\* the bound on the pairs entered
MayApply(word, pattern) ==
  \/ applied < MaxApplied
  \/ applied = MaxApplied /\ word = last_guess /\ pattern = last_pattern

ApplyJson(word, pattern) ==
  /\ pipeline = "json"
  /\ MayApply(word, pattern)
  /\ wordle_criteria' = update_wordle_json(wordle_criteria, word, pattern)
  /\ applied' = applied + 1
  /\ last_guess' = word
  /\ last_pattern' = pattern
  /\ error' = ""
  /\ UNCHANGED <<pipeline, answer, candidates, previous_guesses, form_vars,
                 score_vars, eval_vars, combo_vars, tool_vars>>

ApplyCriteria(word, pattern) ==
  /\ pipeline = "app"
  /\ MayApply(word, pattern)
  /\ wordle_criteria' = update_wordle_criteria(wordle_criteria, word, pattern)
  /\ applied' = applied + 1
  /\ last_guess' = str_upper(word)
  /\ last_pattern' = str_upper(pattern)
  /\ error' = ""
  /\ UNCHANGED <<pipeline, answer, candidates, previous_guesses, form_vars,
                 score_vars, eval_vars, combo_vars, tool_vars>>

AnyJson ==
  \E word \in Words : \E a \in Words :
    ApplyJson(word, generate_wordle_feedback(word, a))

AnyCriteria ==
  \E word \in Words : \E a \in Words :
    ApplyCriteria(word, generate_wordle_feedback(word, a))

NextAny ==
  \/ AnyJson
  \/ AnyCriteria

SpecAny == InitAny /\ [][NextAny]_vars

(***************************************************************************)
(* SpecRaw: the two updaters called directly with inputs that may be       *)
(* malformed: a guess of four letters, a pattern with a symbol that is not *)
(* G, A or X.                                                              *)
(***************************************************************************)
\* the first four letters of a word
short_word(w) == SubSeq(w, 1, 4)

\* a pattern with its third symbol replaced by B
bad_symbol(pattern) == [pattern EXCEPT ![3] = "B"]

WellFormed ==
  \E word \in Words : \E a \in Words :
    \/ ApplyJson(word, generate_wordle_feedback(word, a))
    \/ ApplyCriteria(word, generate_wordle_feedback(word, a))

ShortGuess ==
  \E word \in Words : \E a \in Words :
    \/ ApplyJson(short_word(word), short_word(generate_wordle_feedback(word, a)))
    \/ ApplyCriteria(short_word(word), short_word(generate_wordle_feedback(word, a)))

BadSymbol ==
  \E word \in Words : \E a \in Words :
    \/ ApplyJson(word, bad_symbol(generate_wordle_feedback(word, a)))
    \/ ApplyCriteria(word, bad_symbol(generate_wordle_feedback(word, a)))

NextRaw ==
  \/ WellFormed
  \/ ShortGuess
  \/ BadSymbol

SpecRaw == InitAny /\ [][NextRaw]_vars

(***************************************************************************)
(* SpecForm: the guess form of the app submitted MaxSubmitted times with   *)
(* any texts: a word of the list with a feedback of it against some word   *)
(* of the list (typed in upper case, or in lower case between blanks), a   *)
(* guess that is too short or not in the list, a result that is too short  *)
(* or holds another symbol.                                                *)
(***************************************************************************)
InitForm ==
  /\ pipeline = "app"
  /\ answer = <<>>
  /\ wordle_criteria = default_data
  /\ candidates = None
  /\ previous_guesses = <<>>
  /\ applied = 0
  /\ last_guess = <<>>
  /\ last_pattern = <<>>
  /\ error = ""
  /\ form_guess = <<>>
  /\ form_result = <<>>
  /\ submitted = 0
  /\ ScoreIdle
  /\ EvalIdle
  /\ ComboIdle
  /\ ToolsIdle

\* a text typed in lower case with a blank before and after it
padded(text) == <<" ">> \o str_lower(text) \o <<" ">>

\* a five-letter word that is not in the word list
unlisted_word == Catalogue[NumWords + 1]

all_miss == <<"X", "X", "X", "X", "X">>

TypePair ==
  /\ submitted < MaxSubmitted
  /\ \E word \in Words : \E a \in Words :
       LET pattern == generate_wordle_feedback(word, a)
       IN \/ SubmitGuess(word, pattern)
          \/ SubmitGuess(padded(word), padded(pattern))

TypeBadGuess ==
  /\ submitted < MaxSubmitted
  /\ \/ \E word \in Words : SubmitGuess(short_word(word), all_miss)
     \/ SubmitGuess(unlisted_word, all_miss)

TypeBadResult ==
  /\ submitted < MaxSubmitted
  /\ \E word \in Words :
       \/ SubmitGuess(word, short_word(all_miss))
       \/ SubmitGuess(word, bad_symbol(all_miss))

NextForm ==
  \/ TypePair
  \/ TypeBadGuess
  \/ TypeBadResult

SpecForm == InitForm /\ [][NextForm]_vars

(***************************************************************************)
(* SpecScore: generate_wordle_feedback on every pair of five-letter words  *)
(* over the first NumLetters letters.                                      *)
(***************************************************************************)
Alphabet == {UpperCase[i] : i \in 1..NumLetters}

AlphabetWords == [1..WordLen -> Alphabet]

InitScore ==
  /\ GameIdle
  /\ EvalIdle
  /\ ComboIdle
  /\ ToolsIdle
  /\ sc_guess \in AlphabetWords
  /\ sc_answer \in AlphabetWords
  /\ sc_pattern = <<>>

Score ==
  /\ sc_pattern = <<>>
  /\ sc_pattern' = generate_wordle_feedback(sc_guess, sc_answer)
  /\ UNCHANGED <<sc_guess, sc_answer, game_vars, eval_vars, combo_vars, tool_vars>>

NextScore == Score

SpecScore == InitScore /\ [][NextScore]_vars

(***************************************************************************)
(* SpecEval: evaluate_guess_candidates for a guess of the list against     *)
(* every sub-list of the word list.                                        *)
(***************************************************************************)
\* the rows of word_list a set of row numbers selects, in list order
RECURSIVE rows(_, _)
rows(k, keep) ==
  IF k > Len(word_list) THEN <<>>
  ELSE (IF k \in keep THEN <<word_list[k]>> ELSE <<>>) \o rows(k + 1, keep)

InitEval ==
  /\ GameIdle
  /\ ScoreIdle
  /\ ComboIdle
  /\ ToolsIdle
  /\ ev_guess \in Words
  /\ \E keep \in SUBSET (1..NumWords) : ev_candidates = rows(1, keep)
  /\ ev_results = <<>>
  /\ ev_summary = NoSummary
  /\ ev_pc = "start"
  /\ ev_max = 0

\* lines 103-106
EvalStart ==
  /\ ev_pc = "start"
  /\ ev_guess' = str_lower(ev_guess)
  /\ ev_candidates' = lower_words(ev_candidates)
  /\ ev_results' = <<>>
  /\ ev_pc' = "loop"
  /\ UNCHANGED <<ev_summary, ev_max, game_vars, score_vars, combo_vars, tool_vars>>

\* lines 108-116: one iteration of the loop over candidates["WORD"]
EvalStep ==
  /\ ev_pc = "loop"
  /\ Len(ev_results) < Len(ev_candidates)
  /\ ev_results' =
       Append(ev_results,
              result_row(ev_guess, ev_candidates[Len(ev_results) + 1], ev_candidates))
  /\ UNCHANGED <<ev_guess, ev_candidates, ev_summary, ev_pc, ev_max, game_vars, score_vars, combo_vars, tool_vars>>

\* lines 118-133
EvalSummary ==
  /\ ev_pc = "loop"
  /\ Len(ev_results) = Len(ev_candidates)
  /\ ev_results # <<>>
  /\ ev_summary' = summary_statistics(ev_results)
  /\ ev_pc' = "done"
  /\ UNCHANGED <<ev_guess, ev_candidates, ev_results, ev_max, game_vars, score_vars, combo_vars, tool_vars>>

\* line 121 on no rows: the DataFrame of an empty list has no such column
EvalRaise ==
  /\ ev_pc = "loop"
  /\ Len(ev_results) = Len(ev_candidates)
  /\ ev_results = <<>>
  /\ ev_pc' = "raised"
  /\ UNCHANGED <<ev_guess, ev_candidates, ev_results, ev_summary, ev_max, game_vars, score_vars, combo_vars, tool_vars>>

\* get_max_non_zero_matches([guess], candidates): preprocess_candidates
\* lower-cases the WORD column of the DataFrame it is given (line 457)
MaxMatches ==
  /\ ev_pc = "start"
  /\ ev_candidates' = lower_words(ev_candidates)
  /\ ev_max' = max_matching_words_count(ev_guess, lower_words(ev_candidates))
  /\ ev_pc' = "max_done"
  /\ UNCHANGED <<ev_guess, ev_results, ev_summary, game_vars, score_vars, combo_vars, tool_vars>>

NextEval ==
  \/ EvalStart
  \/ EvalStep
  \/ EvalSummary
  \/ EvalRaise
  \/ MaxMatches

SpecEval == InitEval /\ [][NextEval]_vars

(***************************************************************************)
(* SpecCombo: the combo search of wordle_app.py lines 344-383, run on the  *)
(* candidates left after one guess of the app, with any combo_n; from the  *)
(* Identify Words button with the boxes at their defaults (restricted to   *)
(* the candidates, no custom combo), or by calling the functions in turn.  *)
(* The search is run when at most MaxComboLetters letters are unknown.     *)
(***************************************************************************)
InitCombo ==
  /\ GameIdle
  /\ ScoreIdle
  /\ EvalIdle
  /\ ToolsIdle
  /\ cb_entry \in {"app", "library"}
  /\ \E g \in Words : \E a \in Words :
       LET inputs == load_wordle_inputs(
                       update_wordle_criteria(default_data, g, generate_wordle_feedback(g, a)))
       IN /\ cb_inputs = inputs
          /\ cb_source = wordle_filter(inputs, word_list)
  /\ Cardinality(letters_in_candidates(cb_source, cb_inputs)) <= MaxComboLetters
  /\ cb_n \in (IF cb_entry = "app" THEN 0 ELSE -1)..(MaxComboLetters + 1)
  /\ cb_letters = <<>>
  /\ cb_combos = <<>>
  /\ cb_filtered = <<>>
  /\ cb_results = <<>>
  /\ cb_best = NoBest
  /\ cb_pc = IF cb_entry = "app" THEN "start" ELSE "search"

\* wordle_app.py lines 344-353: what the button does before the search
IdentifyWords ==
  /\ cb_pc = "start"
  /\ LET unknown_letters_count == Cardinality(letters_in_candidates(cb_source, cb_inputs))
     IN cb_pc' = IF cb_n = 0 THEN "all_candidates"
                 ELSE IF cb_n > unknown_letters_count THEN "rejected"
                 ELSE "search"
  /\ UNCHANGED <<cb_entry, cb_source, cb_inputs, cb_n, cb_letters, cb_combos,
                 cb_filtered, cb_results, cb_best, game_vars, score_vars, eval_vars, tool_vars>>

\* lines 374-375: all_letters, and "".join(all_letters)
JoinLetters ==
  /\ cb_pc = "search"
  /\ cb_letters' \in join_orders(letters_in_candidates(cb_source, cb_inputs))
  /\ cb_pc' = "letters"
  /\ UNCHANGED <<cb_entry, cb_source, cb_inputs, cb_n, cb_combos,
                 cb_filtered, cb_results, cb_best, game_vars, score_vars, eval_vars, tool_vars>>

\* line 375: get_n_letter_combinations
Enumerate ==
  /\ cb_pc = "letters"
  /\ IF cb_n < 0
     THEN /\ cb_pc' = "ValueError"
          /\ cb_combos' = cb_combos
     ELSE /\ cb_pc' = "combos"
          /\ cb_combos' = get_n_letter_combinations(cb_letters, cb_n)
  /\ UNCHANGED <<cb_entry, cb_source, cb_inputs, cb_n, cb_letters,
                 cb_filtered, cb_results, cb_best, game_vars, score_vars, eval_vars, tool_vars>>

\* line 376: filter_combos
FilterCombos ==
  /\ cb_pc = "combos"
  /\ cb_filtered' = filter_combos(cb_source, cb_combos)
  /\ cb_pc' = "filtered"
  /\ UNCHANGED <<cb_entry, cb_source, cb_inputs, cb_n, cb_letters, cb_combos,
                 cb_results, cb_best, game_vars, score_vars, eval_vars, tool_vars>>

\* line 377: process_binary_combos_with_optimised_counting
CountCombos ==
  /\ cb_pc = "filtered"
  /\ cb_results' = process_binary_combos_with_optimised_counting(cb_filtered, cb_source)
  /\ cb_pc' = "results"
  /\ UNCHANGED <<cb_entry, cb_source, cb_inputs, cb_n, cb_letters, cb_combos,
                 cb_filtered, cb_best, game_vars, score_vars, eval_vars, tool_vars>>

\* line 378: find_lowest_non_zero_max
FindLowest ==
  /\ cb_pc = "results"
  /\ cb_best' = find_lowest_non_zero_max(cb_results)
  /\ cb_pc' = "done"
  /\ UNCHANGED <<cb_entry, cb_source, cb_inputs, cb_n, cb_letters, cb_combos,
                 cb_filtered, cb_results, game_vars, score_vars, eval_vars, tool_vars>>

NextCombo ==
  \/ IdentifyWords
  \/ JoinLetters
  \/ Enumerate
  \/ FilterCombos
  \/ CountCombos
  \/ FindLowest

SpecCombo == InitCombo /\ [][NextCombo]_vars

(***************************************************************************)
(* SpecLowest: find_lowest_non_zero_max on any dictionary of at most       *)
(* MaxResults one-letter combos with MaxCounts counts each, every count in *)
(* 0..MaxCount.                                                            *)
(***************************************************************************)
\* the lists of binary results of a one-letter combo
AnyBinaryResults ==
  {[j \in 1..MaxCounts |-> [binary_combo |-> <<j = 1>>, match_count |-> counts[j]]] :
     counts \in [1..MaxCounts -> 0..MaxCount]}

\* the dictionaries: distinct keys, in any insertion order
AnyResults ==
  UNION {{results \in [1..n -> [combo : {<<UpperCase[i]>> : i \in 1..MaxResults},
                                 binary_results : AnyBinaryResults]] :
            \A i, j \in 1..n : results[i].combo = results[j].combo => i = j} :
         n \in 0..MaxResults}

InitLowest ==
  /\ GameIdle
  /\ ScoreIdle
  /\ EvalIdle
  /\ ToolsIdle
  /\ cb_entry = "library"
  /\ cb_source = <<>>
  /\ cb_inputs = default_data
  /\ cb_n = 0
  /\ cb_letters = <<>>
  /\ cb_combos = <<>>
  /\ cb_filtered = <<>>
  /\ cb_results \in AnyResults
  /\ cb_best = NoBest
  /\ cb_pc = "results"

NextLowest == FindLowest

SpecLowest == InitLowest /\ [][NextLowest]_vars

(***************************************************************************)
(* SpecOutcomes: wordle_second_guess.py, one run of                        *)
(* create_filtered_outcomes_from_start.  generate_aider_outcomes_json      *)
(* builds the criteria of the 243 patterns of the guess AIDER and writes   *)
(* them; add_candidates_to_outcomes goes through the patterns in that      *)
(* order and filters the word list for each; remove_invalid_outcomes       *)
(* keeps the patterns with candidates.  A KeyError of one pattern ends the *)
(* run: the two later files are not written.  A dictionary is a list of    *)
(* (pattern, data) in insertion order, which json keeps.                   *)
(***************************************************************************)
AIDER == <<"A", "I", "D", "E", "R">>

\* wordle_second_guess.py line 14
feedback_states == <<"X", "A", "G">>

\* wordle_second_guess.py line 15: all_patterns[k], k counted from 0
pattern_of(k) ==
  [i \in 1..5 |-> feedback_states[((k \div <<81, 27, 9, 3, 1>>[i]) % 3) + 1]]

\* generate_all_feedback_patterns: the 243 patterns in the order of product
generate_all_feedback_patterns == [k \in 1..243 |-> pattern_of(k - 1)]

\* lines 20-32: the criteria before the update
empty_criteria(guess, pattern) ==
  [exclusions |-> << <<>>, <<>>, <<>>, <<>>, <<>> >>,
   known_letters |-> <<"-", "-", "-", "-", "-">>,
   unlocated_letters_in_word |-> <<>>,
   letters_not_in_word |-> <<>>,
   previous_guesses |-> << guess \o <<" ">> \o pattern >>]

\* the temporary file is written, updated by update_wordle_json and read back
create_criteria_for_pattern(guess, pattern) ==
  update_wordle_json(empty_criteria(guess, pattern), guess, pattern)

\* lines 99-104
outcome_inputs(criteria) ==
  [exclusions |-> criteria.exclusions,
   known_letters |-> criteria.known_letters,
   unlocated_letters_in_word |-> criteria.unlocated_letters_in_word,
   letters_not_in_word |-> criteria.letters_not_in_word]

\* lines 107-116: the entry add_candidates_to_outcomes stores for a pattern
outcome_with_candidates(criteria, words) ==
  LET candidates_ == wordle_filter(outcome_inputs(criteria), words)
  IN [criteria |-> criteria,
      remaining_candidates |-> [count |-> Len(candidates_), words |-> candidates_]]

\* lines 107 and 114 raise KeyError: 'WORD': wordle_filter raises, or the
\* frame it returns has no WORD column for candidates["WORD"]
outcome_raises(criteria, words) ==
  \/ wordle_filter_raises(outcome_inputs(criteria), words)
  \/ wordle_filter_no_column(outcome_inputs(criteria), words)

\* remove_invalid_outcomes: filtered_data_no_criteria
remove_invalid_outcomes(outcomes) ==
  LET filtered_data ==
        SelectSeq(outcomes, LAMBDA e : e.data.remaining_candidates.count > 0)
  IN [k \in DOMAIN filtered_data |->
        [pattern |-> filtered_data[k].pattern,
         remaining_candidates |-> filtered_data[k].data.remaining_candidates]]

\* word_list.csv, line 80: the word list of the model; a list with one
\* exact word of the guess for every set of positions (the guess itself
\* last); the two together; and the second without the word that has the
\* first four letters of the guess only.  An exact word has the letters of
\* the guess at the positions of S and at no other position: the other
\* positions hold the letters of the guess that belong to them, moved round
\* by one (and the letter of the next position when there is one other
\* position only).
OutcomeWordLists ==
  LET next(S, i) ==
        LET free == (1..5) \ S
        IN IF free = {i} THEN (i % 5) + 1
           ELSE IF \E j \in free : j > i
                THEN CHOOSE j \in free : j > i /\ \A l \in free : l > i => j <= l
                ELSE CHOOSE j \in free : \A l \in free : j <= l
      exact_word(S) == [i \in 1..5 |-> IF i \in S THEN AIDER[i] ELSE AIDER[next(S, i)]]
      exact_words ==
        [k \in 1..32 |->
           exact_word({i \in 1..5 : ((k - 1) \div <<1, 2, 4, 8, 16>>[i]) % 2 = 1})]
  IN {word_list, exact_words, word_list \o exact_words,
      SelectSeq(exact_words, LAMBDA w : w # exact_word(1..4))}

InitOutcomes ==
  /\ GameIdle
  /\ ScoreIdle
  /\ EvalIdle
  /\ ComboIdle
  /\ BatchIdle
  /\ oc_guess = AIDER
  /\ oc_word_list \in OutcomeWordLists
  /\ oc_outcomes = <<>>
  /\ oc_count = 0
  /\ oc_filtered = <<>>
  /\ oc_files = {}
  /\ oc_pc = "start"

\* generate_aider_outcomes_json, lines 52-68
GenerateOutcomes ==
  /\ oc_pc = "start"
  /\ oc_outcomes' =
       [k \in DOMAIN generate_all_feedback_patterns |->
          [pattern |-> generate_all_feedback_patterns[k],
           data |-> create_criteria_for_pattern(oc_guess, generate_all_feedback_patterns[k])]]
  /\ oc_files' = oc_files \cup {"aider_outcomes.json"}
  /\ oc_pc' = "outcomes"
  /\ UNCHANGED <<oc_guess, oc_word_list, oc_count, oc_filtered, game_vars, score_vars,
                 eval_vars, combo_vars, batch_vars>>

\* add_candidates_to_outcomes, lines 84-116 for the next pattern
AddCandidates ==
  /\ oc_pc = "outcomes"
  /\ oc_count < Len(oc_outcomes)
  /\ ~outcome_raises(oc_outcomes[oc_count + 1].data, oc_word_list)
  /\ oc_count' = oc_count + 1
  /\ oc_outcomes' =
       [k \in DOMAIN oc_outcomes |->
          IF k = oc_count + 1
          THEN [pattern |-> oc_outcomes[k].pattern,
                data |-> outcome_with_candidates(oc_outcomes[k].data, oc_word_list)]
          ELSE oc_outcomes[k]]
  /\ UNCHANGED <<oc_guess, oc_word_list, oc_filtered, oc_files, oc_pc, game_vars,
                 score_vars, eval_vars, combo_vars, batch_vars>>

\* add_candidates_to_outcomes ends with KeyError at line 107 or 114, and
\* create_filtered_outcomes_from_start with it
AddCandidatesRaise ==
  /\ oc_pc = "outcomes"
  /\ oc_count < Len(oc_outcomes)
  /\ outcome_raises(oc_outcomes[oc_count + 1].data, oc_word_list)
  /\ oc_count' = oc_count + 1
  /\ oc_pc' = "KeyError"
  /\ UNCHANGED <<oc_guess, oc_word_list, oc_outcomes, oc_filtered, oc_files, game_vars,
                 score_vars, eval_vars, combo_vars, batch_vars>>

\* add_candidates_to_outcomes, lines 118-125: the loop is over
SaveCandidates ==
  /\ oc_pc = "outcomes"
  /\ oc_count = Len(oc_outcomes)
  /\ oc_files' = oc_files \cup {"aider_outcomes_with_candidates.json"}
  /\ oc_pc' = "candidates"
  /\ UNCHANGED <<oc_guess, oc_word_list, oc_outcomes, oc_count, oc_filtered, game_vars,
                 score_vars, eval_vars, combo_vars, batch_vars>>

\* remove_invalid_outcomes, lines 129-144
RemoveInvalid ==
  /\ oc_pc = "candidates"
  /\ oc_filtered' = remove_invalid_outcomes(oc_outcomes)
  /\ oc_files' = oc_files \cup {"aider_outcomes_filtered.json"}
  /\ oc_pc' = "filtered"
  /\ UNCHANGED <<oc_guess, oc_word_list, oc_outcomes, oc_count, game_vars, score_vars,
                 eval_vars, combo_vars, batch_vars>>

NextOutcomes ==
  \/ GenerateOutcomes
  \/ AddCandidates
  \/ AddCandidatesRaise
  \/ SaveCandidates
  \/ RemoveInvalid

SpecOutcomes == InitOutcomes /\ [][NextOutcomes]_vars

(***************************************************************************)
(* SpecBatch: one run of run_analysis_on_filtered_patterns.  The pattern   *)
(* file is the output of remove_invalid_outcomes: its patterns are in the  *)
(* order of generate_all_feedback_patterns and every count is positive.    *)
(* The words of a pattern do not matter to the run; perform_full_analysis  *)
(* either returns a result or raises.                                      *)
(***************************************************************************)
\* the first patterns of generate_all_feedback_patterns are in the model
NumBatchPatterns == 4

\* run_second_guess_process.py line 68: candidate_counts[:3]
TestPatterns == 3

\* run_second_guess_process.py line 68: count <= 10
TestThreshold == 10

\* the pattern files of the model.  The candidate counts are 3, 8 and 13:
\* below and above TestThreshold, below and above the values of
\* max_candidates, which are 5 and 15
BatchInputs ==
  {SelectSeq([k \in 1..NumBatchPatterns |->
                [pattern |-> pattern_of(k - 1), count |-> c[k]]],
             LAMBDA r : r.count > 0) :
     c \in [1..NumBatchPatterns -> {0, 3, 8, 13}]}

\* the results files of the model
BatchFiles ==
  {NoFile, Undecodable}
    \cup {[state |-> "json", entries |-> [p \in S |-> "existing"]] :
            S \in SUBSET {pattern_of(0), pattern_of(1)}}

\* the item put in front, whatever its count
insert_in_front(r, sorted) == <<r>> \o sorted

\* list.sort(key=count) and sorted(key=count): stable, ascending
insert_by_count(r, sorted) ==
  LET n == Cardinality({i \in DOMAIN sorted : sorted[i].count <= r.count})
  IN SubSeq(sorted, 1, n) \o <<r>> \o SubSeq(sorted, n + 1, Len(sorted))

RECURSIVE sorted_by_count(_)
sorted_by_count(items) ==
  IF items = <<>> THEN <<>>
  ELSE insert_by_count(items[Len(items)],
                       sorted_by_count(SubSeq(items, 1, Len(items) - 1)))

\* lines 43-76: patterns_to_process
patterns_to_process(filtered_data, max_candidates, test_mode) ==
  LET by_count == sorted_by_count(filtered_data)
      first == SubSeq(by_count, 1,
                      IF Len(by_count) < TestPatterns
                      THEN Len(by_count) ELSE TestPatterns)
      low == SelectSeq(first, LAMBDA r : r.count <= TestThreshold)
  IN IF ~test_mode
     THEN SelectSeq(filtered_data, LAMBDA r : r.count <= max_candidates)
     ELSE IF low # <<>> THEN low
     ELSE SelectSeq(first, LAMBDA r : r.count <= max_candidates)

\* lines 81-88: results, as loaded from output_file
load_existing(file) ==
  IF file.state = "json" THEN file.entries ELSE EmptyDict

\* every selected pattern, whatever the results hold
patterns_remaining_all(to_process, results) == to_process

\* lines 91-95: patterns_remaining
patterns_remaining(to_process, results) ==
  SelectSeq(to_process, LAMBDA r : r.pattern \notin DOMAIN results)

\* results[pattern] = analysis_result
with_result(results, pattern) ==
  [p \in DOMAIN results \cup {pattern} |->
     IF p = pattern THEN "fresh" ELSE results[p]]

InitBatch ==
  /\ GameIdle
  /\ ScoreIdle
  /\ EvalIdle
  /\ ComboIdle
  /\ OutcomeIdle
  /\ bt_input_ok \in BOOLEAN
  /\ bt_data \in BatchInputs
  /\ bt_max \in {5, 15}
  /\ bt_test \in BOOLEAN
  /\ bt_existing \in BatchFiles
  /\ bt_file = bt_existing
  /\ bt_results = EmptyDict
  /\ bt_queue = <<>>
  /\ bt_i = 0
  /\ bt_analysed = <<>>
  /\ bt_raised = {}
  /\ bt_writes = 0
  /\ bt_pc = "start"

\* lines 35-41: json_file cannot be loaded, the run returns {}
LoadFails ==
  /\ bt_pc = "start"
  /\ ~bt_input_ok
  /\ bt_results' = EmptyDict
  /\ bt_pc' = "returned"
  /\ UNCHANGED <<bt_input_ok, bt_data, bt_max, bt_test, bt_existing, bt_file,
                 bt_queue, bt_i, bt_analysed, bt_raised, bt_writes,
                 game_vars, score_vars, eval_vars, combo_vars, outcome_vars>>

\* lines 35-117: the patterns are selected, the existing results are loaded,
\* and the patterns that remain are sorted; with none left the run returns
SelectPatterns ==
  /\ bt_pc = "start"
  /\ bt_input_ok
  /\ LET results == load_existing(bt_file)
         remaining == patterns_remaining(
                        patterns_to_process(bt_data, bt_max, bt_test), results)
     IN /\ bt_results' = results
        /\ IF remaining = <<>>
           THEN /\ bt_pc' = "returned"
                /\ UNCHANGED <<bt_queue, bt_i>>
           ELSE /\ bt_pc' = "loop"
                /\ bt_queue' = sorted_by_count(remaining)
                /\ bt_i' = 1
  /\ UNCHANGED <<bt_input_ok, bt_data, bt_max, bt_test, bt_existing, bt_file,
                 bt_analysed, bt_raised, bt_writes,
                 game_vars, score_vars, eval_vars, combo_vars, outcome_vars>>

\* lines 130-196, the except branch of line 194: the analysis raises
AnalysisRaises ==
  /\ bt_pc = "loop"
  /\ bt_i <= Len(bt_queue)
  /\ bt_analysed' = Append(bt_analysed, bt_queue[bt_i].pattern)
  /\ bt_raised' = bt_raised \cup {bt_queue[bt_i].pattern}
  /\ bt_i' = bt_i + 1
  /\ UNCHANGED <<bt_input_ok, bt_data, bt_max, bt_test, bt_existing, bt_file,
                 bt_results, bt_queue, bt_writes, bt_pc,
                 game_vars, score_vars, eval_vars, combo_vars, outcome_vars>>

\* lines 130-192: the analysis returns and the results are saved
AnalysisSaved ==
  /\ bt_pc = "loop"
  /\ bt_i <= Len(bt_queue)
  /\ bt_analysed' = Append(bt_analysed, bt_queue[bt_i].pattern)
  /\ bt_results' = with_result(bt_results, bt_queue[bt_i].pattern)
  /\ bt_file' = [state |-> "json", entries |-> bt_results']
  /\ bt_writes' = bt_writes + 1
  /\ bt_i' = bt_i + 1
  /\ UNCHANGED <<bt_input_ok, bt_data, bt_max, bt_test, bt_existing, bt_queue,
                 bt_raised, bt_pc,
                 game_vars, score_vars, eval_vars, combo_vars, outcome_vars>>

\* lines 130-192, the except branch of line 163: the analysis returns and
\* the save raises, in open (the file is as it was) or in json.dump (the
\* file is cut short)
AnalysisSaveFails ==
  /\ bt_pc = "loop"
  /\ bt_i <= Len(bt_queue)
  /\ bt_analysed' = Append(bt_analysed, bt_queue[bt_i].pattern)
  /\ bt_results' = with_result(bt_results, bt_queue[bt_i].pattern)
  /\ bt_file' \in {bt_file, Undecodable}
  /\ bt_writes' = bt_writes + 1
  /\ bt_i' = bt_i + 1
  /\ UNCHANGED <<bt_input_ok, bt_data, bt_max, bt_test, bt_existing, bt_queue,
                 bt_raised, bt_pc,
                 game_vars, score_vars, eval_vars, combo_vars, outcome_vars>>

\* lines 198-212: the loop is over and results is returned
ReturnResults ==
  /\ bt_pc = "loop"
  /\ bt_i > Len(bt_queue)
  /\ bt_pc' = "returned"
  /\ UNCHANGED <<bt_input_ok, bt_data, bt_max, bt_test, bt_existing, bt_file,
                 bt_results, bt_queue, bt_i, bt_analysed, bt_raised, bt_writes,
                 game_vars, score_vars, eval_vars, combo_vars, outcome_vars>>

NextBatch ==
  \/ LoadFails
  \/ SelectPatterns
  \/ AnalysisRaises
  \/ AnalysisSaved
  \/ AnalysisSaveFails
  \/ ReturnResults

SpecBatch == InitBatch /\ [][NextBatch]_vars

(***************************************************************************)
(* Claims about generate_wordle_feedback (SpecScore).                      *)
(***************************************************************************)
Scored == sc_pattern # <<>>

\* the positions of the guess that hold letter
positions_of(word, letter) == {i \in DOMAIN word : word[i] = letter}

\* the positions of the guess holding letter that the pattern marks G or A
marked_positions(word, pattern, letter) ==
  {i \in positions_of(word, letter) : pattern[i] \in {"G", "A"}}

\* C3: for every letter, the number of positions of the guess holding it
\* that are marked G or A is min(count in guess, count in answer), and every
\* other position holding it is marked X.
C3_MarksPerLetter ==
  Scored =>
    \A letter \in Alphabet :
      /\ Cardinality(marked_positions(sc_guess, sc_pattern, letter))
           = Min(str_count(sc_guess, letter), str_count(sc_answer, letter))
      /\ \A i \in positions_of(sc_guess, letter)
                    \ marked_positions(sc_guess, sc_pattern, letter) :
           sc_pattern[i] = "X"

\* a guess with more copies of a letter than the answer has, some marked and some X
C3_Witness ==
  /\ Scored
  /\ \E letter \in Alphabet :
       /\ str_count(sc_answer, letter) > 0
       /\ str_count(sc_guess, letter) > str_count(sc_answer, letter)
       /\ \E i, j \in positions_of(sc_guess, letter) :
            sc_pattern[i] = "A" /\ sc_pattern[j] = "X"

\* C4: the feedback of a word against itself is GGGGG.
C4_SelfIsAllHit ==
  (Scored /\ sc_guess = sc_answer) => sc_pattern = <<"G", "G", "G", "G", "G">>

\* a word with a repeated letter scored against itself
C4_Witness ==
  /\ Scored
  /\ sc_guess = sc_answer
  /\ \E letter \in Alphabet : str_count(sc_guess, letter) >= 2
  /\ sc_pattern = <<"G", "G", "G", "G", "G">>

(***************************************************************************)
(* Claims about a game (Spec).                                             *)
(***************************************************************************)
\* the words wordle_filter returns for the constraint document
filtered_words(data) == str_set(wordle_filter(load_wordle_inputs(data), word_list))

\* C1: in the wordle.json workflow, after every guess scored against the
\* answer, wordle_filter over the word list still returns the answer.
C1_JsonKeepsAnswer ==
  pipeline = "json" => answer \in filtered_words(wordle_criteria)

\* C2: in the app, after every submitted guess scored against the answer,
\* the candidates computed by wordle_filter still contain the answer.
C2_AppKeepsAnswer ==
  (pipeline = "app" /\ applied > 0) => answer \in str_set(candidates)

\* a second guess marks amber a letter already green at another position,
\* some words are eliminated, and the answer is still a candidate
C2_Witness ==
  /\ pipeline = "app"
  /\ applied >= 2
  /\ \E i \in 1..5 :
       /\ last_pattern[i] = "A"
       /\ str_contains(wordle_criteria.known_letters, last_guess[i])
  /\ Len(candidates) < Len(word_list)
  /\ answer \in str_set(candidates)

\* C7: applying one more (guess, pattern) pair never adds a word to what
\* wordle_filter returns over the same word list.
C7_FilterNeverGrows ==
  [][applied' = applied + 1 =>
       filtered_words(wordle_criteria') \subseteq filtered_words(wordle_criteria)]_vars

\* C9: after a pair is applied, for every letter the known positions holding
\* it plus its multiplicity among the unlocated letters is at least the
\* number of positions of the guess where the pair marks it G or A.
C9_RequiredCount ==
  applied >= 1 =>
    \A letter \in str_set(last_guess) :
      str_count(wordle_criteria.known_letters, letter)
        + str_count(wordle_criteria.unlocated_letters_in_word, letter)
      >= Cardinality(marked_positions(last_guess, last_pattern, letter))

(***************************************************************************)
(* Claims about the updaters on any sequence of pairs (SpecAny).           *)
(***************************************************************************)
\* the letters known at a position or listed as unlocated
letters_in_word(data) ==
  str_set(known_without_dash(data.known_letters))
    \cup str_set(data.unlocated_letters_in_word)

\* C5: after any sequence of applied pairs no letter is both in
\* letters_not_in_word and among the known or unlocated letters; and a letter
\* the last pair marks X at one position and G or A at another is not left
\* in letters_not_in_word.
C5_AbsentDisjoint ==
  /\ str_set(wordle_criteria.letters_not_in_word) \cap letters_in_word(wordle_criteria) = {}
  /\ applied >= 1 =>
       \A i, j \in 1..5 :
         (/\ last_guess[i] = last_guess[j]
          /\ last_pattern[i] = "X"
          /\ last_pattern[j] \in {"G", "A"})
         => ~str_contains(wordle_criteria.letters_not_in_word, last_guess[i])

\* the constraint state as the four collections of the data model: known
\* letters by position, the multiset of present letters, the set excluded at
\* each position, the set of absent letters
constraint_state(data) ==
  [known |-> data.known_letters,
   present |-> [ch \in str_set(data.unlocated_letters_in_word) |->
                  str_count(data.unlocated_letters_in_word, ch)],
   position_excluded |-> [k \in DOMAIN data.exclusions |-> str_set(data.exclusions[k])],
   absent |-> str_set(data.letters_not_in_word)]

\* C6: a step that applies again the pair the step before applied leaves
\* the constraint state as it was.
C6_Idempotent ==
  [][(applied >= 1 /\ applied' = applied + 1
        /\ last_guess' = last_guess /\ last_pattern' = last_pattern)
       => constraint_state(wordle_criteria') = constraint_state(wordle_criteria)]_vars

(***************************************************************************)
(* Claims about evaluate_guess_candidates (SpecEval).                      *)
(***************************************************************************)
Evaluated == ev_pc = "done"

\* the candidates that give the guess the feedback pattern
bucket(pattern) ==
  {j \in DOMAIN ev_candidates :
     generate_wordle_feedback(ev_guess, ev_candidates[j]) = pattern}

\* the sum of f over a finite set of rows
RECURSIVE SumOver(_, _)
SumOver(f, S) ==
  IF S = {} THEN 0
  ELSE LET k == CHOOSE x \in S : TRUE IN f[k] + SumOver(f, S \ {k})

\* C8: the 'Remaining Candidates' reported for a pattern is the number of
\* candidates producing that pattern, and these values, taken once per
\* distinct pattern, add up to the number of candidates.
C8_BucketSizes ==
  Evaluated =>
    /\ \A k \in DOMAIN ev_results :
         ev_results[k].remaining = Cardinality(bucket(ev_results[k].pattern))
    /\ SumOver(remaining_column(ev_results), first_of_pattern(ev_results))
         = Len(ev_candidates)

\* C10: the statistics are over one value per candidate: Expected times the
\* number of candidates is the sum of the candidates' remaining counts, and
\* Max is the largest of them.
C10_PerCandidateStatistics ==
  Evaluated =>
    /\ Len(ev_results) = Len(ev_candidates)
    /\ \A k \in DOMAIN ev_candidates : ev_results[k].word = ev_candidates[k]
    /\ ev_summary.total * Len(ev_candidates)
         = ev_summary.count * SumOver(remaining_column(ev_results), DOMAIN ev_candidates)
    /\ \A k \in DOMAIN ev_candidates : ev_results[k].remaining <= ev_summary.max
    /\ \E k \in DOMAIN ev_candidates : ev_results[k].remaining = ev_summary.max

\* two candidates share a pattern and a third has another remaining count,
\* so the mean over candidates differs from the mean over patterns
C10_Witness ==
  /\ Evaluated
  /\ \E j, k, l \in DOMAIN ev_results :
       /\ j # k
       /\ ev_results[j].pattern = ev_results[k].pattern
       /\ ev_results[l].remaining # ev_results[j].remaining
  /\ ev_summary.count = Len(ev_candidates)

(***************************************************************************)
(* Claims about malformed input and the guess form (SpecRaw, SpecForm).    *)
(***************************************************************************)
\* a guess whose length is not 5, or a pattern with a symbol other than G, A, X
malformed(word, pattern) ==
  \/ Len(word) # 5
  \/ \E i \in DOMAIN pattern : pattern[i] \notin {"G", "A", "X"}

\* C14: when update_wordle_json or update_wordle_criteria is given a guess
\* whose length is not 5, or a pattern with a symbol other than G, A, X, the
\* call is rejected and the constraint state after it is the state before it.
C14_MalformedRejected ==
  [][(applied' = applied + 1 /\ malformed(last_guess', last_pattern'))
       => (error' # "" /\ wordle_criteria' = wordle_criteria)]_vars

\* the texts of a submission pass the three validations of the form
passes_validation(guess_text, result_text) ==
  /\ Len(str_strip(guess_text)) = 5
  /\ str_upper(str_strip(guess_text)) \in {str_upper(w) : w \in Words}
  /\ Len(str_strip(result_text)) = 5
  /\ str_set(str_upper(str_strip(result_text))) \subseteq {"X", "A", "G"}

\* C15: a submission of the guess form that fails validation leaves the
\* criteria, the candidates and the previous guesses as they were, and every
\* accepted submission appends exactly one entry to the previous guesses.
C15_FormSubmission ==
  [][submitted' = submitted + 1 =>
       IF passes_validation(form_guess', form_result')
       THEN /\ Len(previous_guesses') = Len(previous_guesses) + 1
            /\ SubSeq(previous_guesses', 1, Len(previous_guesses)) = previous_guesses
       ELSE /\ wordle_criteria' = wordle_criteria
            /\ candidates' = candidates
            /\ previous_guesses' = previous_guesses]_vars

\* C16: when no word of the list satisfies the accumulated constraints,
\* wordle_filter returns the empty candidate set as an ordinary result: the
\* submission that called it raised nothing and stored no candidates.
C16_EmptyIsAResult ==
  (/\ pipeline = "app"
   /\ submitted > 0
   /\ passes_validation(form_guess, form_result)
   /\ wordle_filter(load_wordle_inputs(wordle_criteria), word_list) = <<>>)
    => (error = "" /\ candidates = <<>>)

(***************************************************************************)
(* Claims about the combo search (SpecLowest, SpecCombo).                  *)
(***************************************************************************)
\* the worst-case count of one item of the results
worst_case(item) ==
  CHOOSE c \in {item.binary_results[j].match_count : j \in DOMAIN item.binary_results} :
    \A j \in DOMAIN item.binary_results : item.binary_results[j].match_count <= c

\* the items whose worst-case count is greater than 0
qualifying(results) == {k \in DOMAIN results : worst_case(results[k]) > 0}

\* the first of the qualifying items with the smallest worst-case count
first_lowest(results) ==
  CHOOSE k \in qualifying(results) :
    \A i \in qualifying(results) :
      \/ worst_case(results[k]) < worst_case(results[i])
      \/ worst_case(results[k]) = worst_case(results[i]) /\ k <= i

\* C11: find_lowest_non_zero_max returns the combo whose worst-case count is
\* smallest among the combos whose worst-case count is greater than 0, with
\* that count; of several such combos the first in the order of the results;
\* and no combo when none qualifies.
C11_LowestNonZeroMax ==
  cb_pc = "done" =>
    IF qualifying(cb_results) = {}
    THEN cb_best.best_combo = NoCombo
    ELSE /\ cb_best.best_combo = cb_results[first_lowest(cb_results)].combo
         /\ cb_best.lowest_max = worst_case(cb_results[first_lowest(cb_results)])

\* the search has ended on results where a combo that does not qualify comes
\* first and two later combos tie for the smallest worst-case count
C11_Witness ==
  /\ cb_pc = "done"
  /\ Len(cb_results) = 3
  /\ worst_case(cb_results[1]) = 0
  /\ worst_case(cb_results[2]) = worst_case(cb_results[3])
  /\ cb_best.best_combo = cb_results[2].combo

\* a sequence without its j-th element
without(seq, j) == SubSeq(seq, 1, j - 1) \o SubSeq(seq, j + 1, Len(seq))

\* the worst-case count of a combo over the words, by the code's count
worst_case_of(combo, words) ==
  LET binary_combos == product_true_false(Len(combo))
  IN SeqMax([j \in DOMAIN binary_combos |-> match_count(combo, binary_combos[j], words)])

\* C12: refining an assignment never increases its count: the count of a
\* combo under an assignment is at most the count of the combo without one
\* of its letters under the assignment without that letter, and so the
\* worst-case count of a combo is at most that of each such sub-combo.
C12_RefiningNeverIncreases ==
  cb_pc \in {"results", "done"} =>
    \A k \in DOMAIN cb_results :
      \A j \in DOMAIN cb_results[k].combo :
        /\ \A r \in DOMAIN cb_results[k].binary_results :
             cb_results[k].binary_results[r].match_count
               <= match_count(without(cb_results[k].combo, j),
                              without(cb_results[k].binary_results[r].binary_combo, j),
                              cb_source)
        /\ worst_case(cb_results[k])
             <= worst_case_of(without(cb_results[k].combo, j), cb_source)

\* the counts are computed for a combo of two letters or more, and the
\* worst-case count of one of them is smaller than that of a sub-combo
C12_Witness ==
  /\ cb_pc = "done"
  /\ \E k \in DOMAIN cb_results :
       /\ Len(cb_results[k].combo) >= 2
       /\ \E j \in DOMAIN cb_results[k].combo :
            worst_case(cb_results[k]) < worst_case_of(without(cb_results[k].combo, j), cb_source)

\* C13: a combo search asked for with combo_n non-positive, or larger than
\* the number of unknown letters, is rejected before any subset is
\* enumerated: it never gets to a list of combos or to a best combo.
C13_OutOfRangeRejected ==
  (\/ cb_n <= 0
   \/ cb_n > Cardinality(letters_in_candidates(cb_source, cb_inputs)))
    => cb_pc \notin {"combos", "filtered", "results", "done"}

\* the best combo the search finds when the letters are joined in this order
best_for_order(order) ==
  find_lowest_non_zero_max(
    process_binary_combos_with_optimised_counting(
      filter_combos(cb_source, get_n_letter_combinations(order, cb_n)), cb_source))

\* C18: the combo search is deterministic: the best combo (its letters and
\* its worst-case count) is the same in whatever order the set of unknown
\* letters is iterated.
C18_OrderIndependent ==
  cb_pc = "done" =>
    \A order \in join_orders(letters_in_candidates(cb_source, cb_inputs)) :
      /\ str_set(best_for_order(order).best_combo) = str_set(cb_best.best_combo)
      /\ best_for_order(order).lowest_max = cb_best.lowest_max

\* C17: evaluation is pure with respect to its inputs: no step of
\* evaluate_guess_candidates or get_max_non_zero_matches changes the
\* caller's candidates (same words, same letter case), so filter_combos on
\* the candidates returns after the evaluation what it returned before it.
C17_EvaluationIsPure ==
  [][/\ ev_candidates' = ev_candidates
     /\ \A letter \in UNION {str_set(ev_candidates[k]) : k \in DOMAIN ev_candidates} :
          filter_combos(ev_candidates', << <<letter>> >>)
            = filter_combos(ev_candidates, << <<letter>> >>)]_vars

\* the constraint state of one pair applied to the empty state, filtered
\* over the candidates by wordle_filter
engine_count(updated, candidates_) ==
  IF wordle_filter_raises(load_wordle_inputs(updated), candidates_) THEN -1
  ELSE Len(wordle_filter(load_wordle_inputs(updated), candidates_))

\* C19: the evaluator's count agrees with the constraint engine: for the
\* guess, every pattern and the candidates, apply_updated_criteria gives
\* the number of words wordle_filter returns over the candidates for the
\* pair applied to the empty state by update_wordle_json, and equally by
\* update_wordle_criteria.
C19_EvaluatorAgreesWithEngine ==
  ev_pc = "start" =>
    \A pattern \in generate_combinations(WordLen) :
      /\ apply_updated_criteria(ev_guess, pattern, ev_candidates)
           = engine_count(update_wordle_json(default_data, ev_guess, pattern), ev_candidates)
      /\ apply_updated_criteria(ev_guess, pattern, ev_candidates)
           = engine_count(update_wordle_criteria(default_data, ev_guess, pattern), ev_candidates)

\* the size of the largest feedback bucket of the candidates under the guess
largest_bucket(guess, candidates_) ==
  LET same(c) == {k \in DOMAIN candidates_ :
                    generate_wordle_feedback(guess, candidates_[k])
                      = generate_wordle_feedback(guess, c)}
      sizes == {Cardinality(same(candidates_[k])) : k \in DOMAIN candidates_}
  IN CHOOSE m \in sizes : \A n \in sizes : n <= m

\* C20: for a non-empty candidate set, the 'Max Matching Words Count' of
\* the guess is the size of the largest feedback bucket of the candidates
\* under the guess, and so at least 1.
C20_MaxIsLargestBucket ==
  (ev_pc = "max_done" /\ ev_candidates # <<>>) =>
    /\ ev_max = largest_bucket(ev_guess, ev_candidates)
    /\ ev_max >= 1

(***************************************************************************)
(* Further claims about evaluate_guess_candidates (SpecEval).              *)
(***************************************************************************)
\* C21: every candidate is counted among the remaining candidates of its
\* own feedback pattern: its remaining count is at least the number of
\* candidates producing the same pattern, which is at least 1; and when the
\* guess is among the candidates its row is the all-G pattern, with a
\* reported size of at least 1.
C21_CandidateCountsItself ==
  Evaluated =>
    /\ \A k \in DOMAIN ev_results :
         /\ ev_results[k].pattern = generate_wordle_feedback(ev_guess, ev_candidates[k])
         /\ ev_results[k].remaining >= Cardinality(bucket(ev_results[k].pattern))
         /\ k \in bucket(ev_results[k].pattern)
    /\ \A k \in DOMAIN ev_candidates :
         ev_candidates[k] = ev_guess =>
           /\ ev_results[k].pattern = <<"G", "G", "G", "G", "G">>
           /\ ev_results[k].remaining >= 1

\* the guess is among the candidates, and another candidate's remaining
\* count is larger than the number of candidates sharing its pattern
C21_Witness ==
  /\ Evaluated
  /\ \E k \in DOMAIN ev_candidates : ev_candidates[k] = ev_guess
  /\ \E k \in DOMAIN ev_results :
       /\ ev_results[k].remaining > Cardinality(bucket(ev_results[k].pattern))
       /\ Cardinality(bucket(ev_results[k].pattern)) >= 1

(***************************************************************************)
(* Claims about the outcomes of a first guess (SpecOutcomes).              *)
(***************************************************************************)
\* the guess has five distinct letters
distinct_letters(guess) == Cardinality(str_set(guess)) = Len(guess)

\* the words of the list that give the guess the pattern, in list order
realized_by(words, guess, pattern) ==
  SelectSeq(words, LAMBDA w : generate_wordle_feedback(guess, w) = pattern)

\* the patterns add_candidates_to_outcomes has stored candidates for
with_candidates ==
  IF oc_pc = "KeyError" THEN 1..(oc_count - 1) ELSE 1..oc_count

\* the candidates stored for the patterns are the words that realize them
candidates_are_buckets ==
  \A k \in with_candidates :
    LET bucket_ == realized_by(oc_word_list, oc_guess, oc_outcomes[k].pattern)
    IN /\ oc_outcomes[k].data.remaining_candidates.words = bucket_
       /\ oc_outcomes[k].data.remaining_candidates.count = Len(bucket_)

\* every word of the list is a candidate of exactly one pattern
candidates_partition ==
  \A i \in DOMAIN oc_word_list :
    \E k \in DOMAIN oc_outcomes :
      /\ str_contains(oc_outcomes[k].data.remaining_candidates.words, oc_word_list[i])
      /\ \A j \in DOMAIN oc_outcomes :
           str_contains(oc_outcomes[j].data.remaining_candidates.words, oc_word_list[i])
             => j = k

\* the patterns kept are the patterns some word realizes, with their candidates
kept_are_realized ==
  oc_filtered =
    remove_invalid_outcomes(
      [k \in DOMAIN oc_outcomes |->
         [pattern |-> oc_outcomes[k].pattern,
          data |-> [remaining_candidates |->
                      [count |-> Len(realized_by(oc_word_list, oc_guess, oc_outcomes[k].pattern)),
                       words |-> realized_by(oc_word_list, oc_guess, oc_outcomes[k].pattern)]]]])

\* what holds of every run as far as it gets
buckets_unless_raised ==
  /\ candidates_are_buckets
  /\ oc_pc \in {"candidates", "filtered"} => candidates_partition
  /\ oc_pc = "filtered" => kept_are_realized

\* C22: for a guess of five distinct letters and every pattern, filtering
\* the word list with the criteria of create_criteria_for_pattern gives
\* exactly the words whose feedback is the pattern (so the lists of the
\* patterns are pairwise disjoint and cover the word list), and
\* remove_invalid_outcomes keeps exactly the patterns some word realizes.
C22_OutcomeIsBucket ==
  distinct_letters(oc_guess) =>
    /\ oc_pc # "KeyError"
    /\ buckets_unless_raised

(***************************************************************************)
(* Claims about one application of a pair (SpecAny).                       *)
(***************************************************************************)
\* a pair has just been applied
pair_applied == applied' = applied + 1

\* what an application does to the known letters and the exclusions: a
\* position marked G holds the guessed letter, a position marked A or X has
\* the guessed letter in its exclusions, and the known letters and the
\* exclusions of the other positions are as before
marks_recorded ==
  \A i \in 1..WordLen :
    /\ last_pattern'[i] = "G" =>
         /\ wordle_criteria'.known_letters[i] = last_guess'[i]
         /\ wordle_criteria'.exclusions[i] = wordle_criteria.exclusions[i]
    /\ last_pattern'[i] \in {"A", "X"} =>
         /\ str_contains(wordle_criteria'.exclusions[i], last_guess'[i])
         /\ wordle_criteria'.known_letters[i] = wordle_criteria.known_letters[i]

\* C23: after a well-formed pair is applied, every position marked G holds
\* the guessed letter in known_letters and that letter is no longer listed
\* as unlocated; every position marked A or X has the guessed letter in its
\* exclusions; known letters and exclusions of the other positions are
\* unchanged.
C23_PairRecorded ==
  [][pair_applied =>
       /\ marks_recorded
       /\ \A i \in 1..WordLen :
            last_pattern'[i] = "G" =>
              ~str_contains(wordle_criteria'.unlocated_letters_in_word, last_guess'[i])]_vars

\* C23 as amended: the letter of a position marked G is listed as unlocated
\* after the application only when the guess holds the same letter marked A
\* at a later position.
C23_PairRecordedAmended ==
  [][pair_applied =>
       /\ marks_recorded
       /\ \A i \in 1..WordLen :
            (/\ last_pattern'[i] = "G"
             /\ str_contains(wordle_criteria'.unlocated_letters_in_word, last_guess'[i]))
              => \E j \in (i + 1)..WordLen :
                   last_guess'[j] = last_guess'[i] /\ last_pattern'[j] = "A"]_vars

\* a pair with a G, an A and an X has been applied to a state that already
\* held a known letter and an exclusion, and the letter of a position
\* marked G is listed as unlocated
C23_Witness ==
  /\ applied = 2
  /\ {last_pattern[i] : i \in 1..WordLen} = {"G", "A", "X"}
  /\ \E i \in 1..WordLen :
       /\ last_pattern[i] = "G"
       /\ str_contains(wordle_criteria.unlocated_letters_in_word, last_guess[i])
  /\ \E i \in 1..WordLen :
       last_pattern[i] # "G" /\ wordle_criteria.known_letters[i] # "-"

(***************************************************************************)
(* Further claims about generate_wordle_feedback (SpecScore).              *)
(***************************************************************************)
\* the positions where the guess and the answer hold the same letter
hits == {i \in 1..WordLen : sc_guess[i] = sc_answer[i]}

\* the occurrences of the letter in the answer that no G matches
unmatched(letter) ==
  str_count(sc_answer, letter) - Cardinality({i \in hits : sc_guess[i] = letter})

\* the positions before i that are not G and hold the letter of position i
earlier_misses(i) ==
  {j \in 1..(i - 1) : j \notin hits /\ sc_guess[j] = sc_guess[i]}

\* C24: a position is marked G exactly when the guess and the answer agree
\* there; among the other positions holding a letter, the leftmost ones are
\* marked A, as many as the answer has occurrences of the letter that no G
\* matches, and the later ones are marked X.
C24_LeftmostAmbers ==
  Scored =>
    \A i \in 1..WordLen :
      /\ sc_pattern[i] = "G" <=> i \in hits
      /\ sc_pattern[i] = "A" <=>
           (i \notin hits /\ Cardinality(earlier_misses(i)) < unmatched(sc_guess[i]))
      /\ sc_pattern[i] = "X" <=>
           (i \notin hits /\ Cardinality(earlier_misses(i)) >= unmatched(sc_guess[i]))

\* a letter with a G, and with an A to the left of an X
C24_Witness ==
  /\ Scored
  /\ \E i, j, k \in 1..WordLen :
       /\ j < k
       /\ sc_guess[i] = sc_guess[j] /\ sc_guess[j] = sc_guess[k]
       /\ sc_pattern[i] = "G" /\ sc_pattern[j] = "A" /\ sc_pattern[k] = "X"

(***************************************************************************)
(* Claims about wordle_filter on the constraint states of SpecAny.         *)
(***************************************************************************)
\* the word satisfies the four conditions of the constraint state
satisfies_constraints(w, data) ==
  LET required == data.unlocated_letters_in_word \o known_without_dash(data.known_letters)
  IN /\ \A i \in 1..WordLen : data.known_letters[i] # "-" => w[i] = data.known_letters[i]
     /\ \A i \in 1..WordLen : w[i] \notin str_set(data.exclusions[i])
     /\ str_set(w) \cap str_set(data.letters_not_in_word) = {}
     /\ data.unlocated_letters_in_word # <<>> =>
          \A letter \in str_set(required) : str_count(w, letter) >= str_count(required, letter)

\* the four filters applied in the opposite order
filtered_in_reverse(data) ==
  LET d1 == IF data.letters_not_in_word # <<>>
            THEN candidates_ex_excluded(word_list, data.letters_not_in_word) ELSE word_list
      d2 == IF data.unlocated_letters_in_word # <<>>
            THEN candidates_all_letters(d1, data.known_letters, data.unlocated_letters_in_word)
            ELSE d1
      d3 == filter_words_by_exclusions(d2, data.exclusions)
  IN candidates_match_known(d3, data.known_letters)

\* C25: wordle_filter returns exactly the words of the list, in list order,
\* that match the known letters, hold no letter excluded at its position,
\* hold no letter of letters_not_in_word and, when there are unlocated
\* letters, hold every letter at least as often as unlocated + known
\* letters do; the four filters applied in another order give the same.
C25_FilterIsConjunction ==
  LET inputs == load_wordle_inputs(wordle_criteria)
  IN applied > 0 =>
       /\ ~wordle_filter_raises(inputs, word_list)
       /\ wordle_filter(inputs, word_list)
            = SelectSeq(word_list, LAMBDA w : satisfies_constraints(w, wordle_criteria))
       /\ wordle_filter(inputs, word_list) = filtered_in_reverse(wordle_criteria)

(***************************************************************************)
(* Further claims about the combo search (SpecCombo).                      *)
(***************************************************************************)
\* the combos have been filtered
combos_filtered == cb_pc \in {"filtered", "results", "done"}

\* some word of the source holds every letter of the combo
held_by_a_word(combo) ==
  \E k \in DOMAIN cb_source : \A i \in DOMAIN combo : str_contains(cb_source[k], combo[i])

\* the places of the combo in the list
places(combo, list) == {i \in DOMAIN list : list[i] = combo}

\* C26: filter_combos keeps a combo exactly when at least one word of the
\* list holds every letter of the combo, and the combos it keeps are in
\* their original relative order, each of them once.
C26_FilterCombos ==
  combos_filtered =>
    /\ \A i \in DOMAIN cb_combos :
         places(cb_combos[i], cb_filtered) # {} <=> held_by_a_word(cb_combos[i])
    /\ \A i \in DOMAIN cb_filtered :
         /\ places(cb_filtered[i], cb_combos) # {}
         /\ places(cb_filtered[i], cb_filtered) = {i}
    /\ \A i, j \in DOMAIN cb_filtered :
         i < j => \A a \in places(cb_filtered[i], cb_combos) :
                    \A b \in places(cb_filtered[j], cb_combos) : a < b

\* a combo of two letters is dropped and two combos are kept
C26_Witness ==
  /\ combos_filtered
  /\ Len(cb_filtered) >= 2
  /\ \E i \in DOMAIN cb_combos :
       /\ Len(cb_combos[i]) >= 2
       /\ places(cb_combos[i], cb_filtered) = {}

\* two to the power k
RECURSIVE two_to(_)
two_to(k) == IF k = 0 THEN 1 ELSE 2 * two_to(k - 1)

\* the word holds exactly the letters of the combo that the assignment flags
agrees(word, combo, binary_combo) ==
  \A i \in DOMAIN combo : binary_combo[i] <=> str_contains(word, combo[i])

\* the match counts of a combo, in the order of its assignments
match_counts(result) ==
  [r \in DOMAIN result.binary_results |-> result.binary_results[r].match_count]

\* C27: for every combo of k distinct letters the counting produces exactly
\* 2^k assignments, every word of the list matches exactly one of them, and
\* the match counts of the combo add up to the number of words of the list.
C27_AssignmentsPartition ==
  cb_pc \in {"results", "done"} =>
    \A c \in DOMAIN cb_results :
      /\ Len(cb_results[c].binary_results) = two_to(Len(cb_results[c].combo))
      /\ \A k \in DOMAIN cb_source :
           Cardinality({r \in DOMAIN cb_results[c].binary_results :
                          agrees(cb_source[k], cb_results[c].combo,
                                 cb_results[c].binary_results[r].binary_combo)}) = 1
      /\ \A r \in DOMAIN cb_results[c].binary_results :
           cb_results[c].binary_results[r].match_count
             = Cardinality({k \in DOMAIN cb_source :
                              agrees(cb_source[k], cb_results[c].combo,
                                     cb_results[c].binary_results[r].binary_combo)})
      /\ SeqSum(match_counts(cb_results[c])) = Len(cb_source)

\* a combo of two letters is counted over two words or more, and two of
\* its assignments match a word
C27_Witness ==
  /\ cb_pc = "results"
  /\ Len(cb_source) >= 2
  /\ \E c \in DOMAIN cb_results :
       /\ Len(cb_results[c].combo) >= 2
       /\ \E r1, r2 \in DOMAIN cb_results[c].binary_results :
            /\ r1 # r2
            /\ cb_results[c].binary_results[r1].match_count > 0
            /\ cb_results[c].binary_results[r2].match_count > 0

(***************************************************************************)
(* Claims about the reset (SpecReset)                                      *)
(***************************************************************************)
\* the last operation was a reset
JustReset == error \in {JsonResetMessage, AppResetMessage}

\* no known letters, no present letters, no exclusions, no absent letters
empty_constraints(data) ==
  /\ DOMAIN data = {"exclusions", "known_letters", "unlocated_letters_in_word",
                    "letters_not_in_word"}
  /\ data.known_letters = <<"-", "-", "-", "-", "-">>
  /\ data.unlocated_letters_in_word = <<>>
  /\ data.letters_not_in_word = <<>>
  /\ DOMAIN data.exclusions = 1..5
  /\ \A k \in 1..5 : data.exclusions[k] = <<>>

\* C28: after a reset, whatever guesses were applied before it, the
\* constraints are empty (and in the app there are no previous guesses and
\* no candidates), and wordle_filter with these constraints returns every
\* word of the word list.
C28_ResetIsEmpty ==
  JustReset =>
    /\ empty_constraints(wordle_criteria)
    /\ pipeline = "app" => previous_guesses = <<>> /\ candidates = None
    /\ ~wordle_filter_raises(load_wordle_inputs(wordle_criteria), word_list)
    /\ ~wordle_filter_no_column(load_wordle_inputs(wordle_criteria), word_list)
    /\ wordle_filter(load_wordle_inputs(wordle_criteria), word_list) = word_list

\* the Reset button was pressed after two guesses
C28_Witness ==
  /\ pipeline = "app"
  /\ error = AppResetMessage
  /\ applied >= 2

(***************************************************************************)
(* Claims about the batch run (SpecBatch)                                  *)
(***************************************************************************)
\* the entries the run loaded from the results file: none when the pattern
\* file could not be read, for the run returns before it opens the results
loaded == IF bt_input_ok THEN load_existing(bt_existing) ELSE EmptyDict

\* every entry of the first dictionary is in the second, with the same value
kept_in(entries, results) ==
  \A p \in DOMAIN entries : p \in DOMAIN results /\ results[p] = entries[p]

\* the patterns the run selected for processing
selected_patterns ==
  LET to_process == patterns_to_process(bt_data, bt_max, bt_test)
  IN {to_process[k].pattern : k \in DOMAIN to_process}

\* C29: the run never analyses a pattern that is in the existing results
\* file; every entry loaded from that file is in the results, unchanged, and
\* in every file the run writes; when every selected pattern is already in
\* the file the run analyses nothing and writes nothing.
C29_BatchResume ==
  /\ \A k \in DOMAIN bt_analysed :
       bt_analysed[k] \notin DOMAIN load_existing(bt_existing)
  /\ bt_pc \in {"loop", "returned"} => kept_in(loaded, bt_results)
  /\ bt_writes > 0 /\ bt_file.state = "json" => kept_in(loaded, bt_file.entries)
  /\ (bt_pc = "returned" /\ bt_input_ok
        /\ selected_patterns \subseteq DOMAIN load_existing(bt_existing))
       => bt_analysed = <<>> /\ bt_writes = 0 /\ bt_file = bt_existing

\* a run that found a selected pattern in the file, analysed another one and
\* saved
C29_Witness ==
  /\ bt_pc = "returned"
  /\ selected_patterns \cap DOMAIN loaded # {}
  /\ bt_analysed # <<>>
  /\ bt_file.state = "json"
  /\ bt_file.entries = bt_results
  /\ bt_writes > 0

\* the candidate count of a pattern of the pattern file
count_of(pattern) ==
  LET k == CHOOSE k \in DOMAIN bt_data : bt_data[k].pattern = pattern
  IN bt_data[k].count

\* the analyses were made in ascending order of candidate count
ascending ==
  \A j, k \in DOMAIN bt_analysed :
    j < k => count_of(bt_analysed[j]) <= count_of(bt_analysed[k])

\* the patterns of the sequence, as a set
analysed_set == {bt_analysed[k] : k \in DOMAIN bt_analysed}

\* the patterns with a count of at most max_candidates that the results file
\* did not hold
within_max ==
  {bt_data[k].pattern : k \in {j \in DOMAIN bt_data : bt_data[j].count <= bt_max}}
    \ DOMAIN loaded

\* on return: every pattern to process was analysed once, every one whose
\* analysis did not raise is in the results, and the results hold nothing
\* else than these and what was loaded
completed(to_process) ==
  /\ analysed_set = to_process
  /\ Len(bt_analysed) = Cardinality(to_process)
  /\ \A p \in to_process : p \notin bt_raised => p \in DOMAIN bt_results
  /\ DOMAIN bt_results \subseteq DOMAIN loaded \cup to_process

\* C30 as stated: the patterns with a count of at most max_candidates that
\* are not in the results are analysed in ascending order of count, to the
\* end of the list whatever fails, and on return the results hold every one
\* whose analysis did not raise and, beside the loaded entries, no pattern
\* with a larger count.
C30_BatchCompletion ==
  /\ ascending
  /\ bt_pc = "returned" /\ bt_input_ok =>
       /\ completed(within_max)
       /\ \A p \in DOMAIN bt_results \ DOMAIN loaded : count_of(p) <= bt_max

\* the larger of two numbers
larger(a, b) == IF a >= b THEN a ELSE b

\* C30, amended: the same of the patterns the run selected, which in test
\* mode are at most three of the lowest counts (those of at most 10, or with
\* none of these those of at most max_candidates).  Every step of the loop
\* moves one place down the list, whatever its outcome, and the run returns
\* only from the end of the list.
C30_BatchCompletionAmended ==
  /\ ascending
  /\ bt_pc = "loop" => bt_i = Len(bt_analysed) + 1 /\ bt_i <= Len(bt_queue) + 1
  /\ bt_pc = "returned" /\ bt_queue # <<>> => Len(bt_analysed) = Len(bt_queue)
  /\ bt_pc = "returned" /\ bt_input_ok =>
       /\ completed(selected_patterns \ DOMAIN loaded)
       /\ ~bt_test => selected_patterns \ DOMAIN loaded = within_max
       /\ \A p \in DOMAIN bt_results \ DOMAIN loaded :
            count_of(p) <= IF bt_test THEN larger(bt_max, TestThreshold)
                           ELSE bt_max

\* a run of three analyses: one raised, one was not saved, one was saved
C30_Witness ==
  /\ bt_pc = "returned"
  /\ Len(bt_analysed) >= 3
  /\ bt_raised # {}
  /\ bt_writes >= 2
  /\ bt_file.state = "json"
  /\ bt_file.entries # bt_results
  /\ \E k \in DOMAIN bt_data : bt_data[k].count > bt_max
====
